---- MODULE Spec2Model ----
(***************************************************************************)
(* Model of PyDSL's native-ABI marshalling layer (pydsl/frontend.py) and   *)
(* of the typed values it marshals (pydsl/type.py).                        *)
(*                                                                         *)
(* Python objects are records with a fixed set of fields so that any two   *)
(* of them can be compared:                                                *)
(*   type objects   [kind, name, id, fields]   kind: scalar|tuple|struct|  *)
(*                                                    pointer|none         *)
(*   value objects  [kind, v, ty, e]           kind: val|tuple|struct|none *)
(* A tuple of type objects is a CTypeTreeType, a tuple of value objects a  *)
(* CTypeTree.  A struct type carries the identity (id) of the class object *)
(* that one execution of the class statement created.                      *)
(***************************************************************************)
EXTENDS Integers, Sequences, FiniteSets, TLC

\* ------------------------------------------------------------------ bounds
\* Largest CTypeTreeType (in nodes) drawn as an operand of the converters.
MaxNodes == 6
\* Largest trees (in nodes) drawn for the pairs whose shapes are unrelated.
MaxMixNodes == 4
\* Number of CTypeTreeType_to_Structure calls in one run of the memo model.
MaxCalls == 2
\* Largest width an Int subclass is declared with.
MaxWidth == 8
\* get_index_width() on a 64-bit host, and the widths of F16, F32, F64.
IndexWidth == 64
FloatWidths == {16, 32, 64}
\* Largest width of the Int classes whose operators are applied.
MaxOpWidth == 3
\* Largest number of declared parameters, and of positional arguments passed.
MaxParams == 2
\* Largest number of types in a tuple return annotation.
MaxReturns == 2
\* Largest number of scalar classes in the tuple returns of ReturnSpec.
MaxFields == 3

\* ------------------------------------------------------------ type objects
Scalar(n) == [kind |-> "scalar", name |-> n, id |-> 0, fields |-> <<>>]
Tup(s) == [kind |-> "tuple", name |-> "tuple", id |-> 0, fields |-> s]
StructType(i, fs) == [kind |-> "struct", name |-> "AnonymousStructure", id |-> i, fields |-> fs]
POINTER(t) == [kind |-> "pointer", name |-> "POINTER", id |-> 0, fields |-> <<t>>]
NoType == [kind |-> "none", name |-> "None", id |-> 0, fields |-> <<>>]

c_int8 == Scalar("c_int8")
c_uint8 == Scalar("c_uint8")
c_uint32 == Scalar("c_uint32")
c_double == Scalar("c_double")
c_size_t == Scalar("c_size_t")
c_int == Scalar("c_int")

\* isinstance(x, tuple) and issubclass(x, Structure) on type objects
IsTuple(x) == x.kind = "tuple"
IsStructType(x) == x.kind = "struct"

\* ----------------------------------------------------------- value objects
Val(n) == [kind |-> "val", v |-> n, ty |-> NoType, e |-> <<>>]
VTup(s) == [kind |-> "tuple", v |-> 0, ty |-> NoType, e |-> s]
Instance(t, s) == [kind |-> "struct", v |-> 0, ty |-> t, e |-> s]
NoVal == [kind |-> "none", v |-> 0, ty |-> NoType, e |-> <<>>]
\* A float: h halves, so that 3.5 is Dbl(7) and Val(n) is no float.
Dbl(h) == [kind |-> "val", v |-> h, ty |-> c_double, e |-> <<>>]

IsVTuple(x) == x.kind = "tuple"
IsInstance(x) == x.kind = "struct"

\* What a ctypes field of scalar type t holds after a Python int v is stored
\* in it: ctypes does not range-check integer fields, the value wraps.
FieldStore(t, v) ==
  CASE t.name = "c_int8" -> ((v + 128) % 256) - 128
    [] t.name = "c_uint8" -> v % 256
    [] t.name = "c_bool" -> IF v = 0 THEN 0 ELSE 1
    [] OTHER -> v

\* The element of a singleton.  The({e(x) : x \in {v}}) is e with x bound to
\* the value of v, computed once.
The(S) == CHOOSE x \in S : TRUE

\* Outcome of a call: status is "return", "raise" (err names the error) or
\* "hang" (the call never returns); st is the memo state the call leaves.
Return(st, r) == [status |-> "return", err |-> "", r |-> r, st |-> st]
Raise(st, e) == [status |-> "raise", err |-> e, r |-> NoVal, st |-> st]
Hang(st) == [status |-> "hang", err |-> "", r |-> NoVal, st |-> st]

\* The functools.cache of CTypeTreeType_to_Structure: memo maps each argument
\* seen to the object returned for it, next is the identity the next class
\* statement will create.
EmptyCache == [memo |-> <<>>, next |-> 1]
\* Variant: the function is not memoized, every call is a miss.
Cached_Never(st, ct) == FALSE
Cached(st, ct) == ct \in DOMAIN st.memo
Remember(st, ct, r) ==
  [memo |-> [k \in DOMAIN st.memo \cup {ct} |-> IF k = ct THEN r ELSE st.memo[k]],
   next |-> st.next]

\* The class statement: a new Structure subclass with its own identity.
NewClass(st, fs) == [memo |-> st.memo, next |-> st.next + 1]

\* ------------------------------------------------ CTypeTreeType_to_Structure
RECURSIVE CTypeTreeType_to_Structure(_, _)
RECURSIVE ct_recursive(_, _, _, _)

\* [(CTypeTreeType_to_Structure(t) if isinstance(t, tuple) else t) for t in ct]
ct_recursive(st, ct, i, acc) ==
  IF i > Len(ct.fields) THEN Return(st, acc)
  ELSE IF IsTuple(ct.fields[i])
  THEN The({IF sub.status # "return" THEN sub
            ELSE ct_recursive(sub.st, ct, i + 1, Append(acc, sub.r))
            : sub \in {CTypeTreeType_to_Structure(st, ct.fields[i])}})
  ELSE ct_recursive(st, ct, i + 1, Append(acc, ct.fields[i]))

\* Variant: the single-element case is missing, every tuple becomes a struct.
TypeToStructureBody_NoCollapse(st, ct) ==
  IF ~IsTuple(ct) THEN Raise(st, "ct is not a CTypeTreeType")
  ELSE The({IF sub.status # "return" THEN sub
            ELSE Return(NewClass(sub.st, sub.r), StructType(sub.st.next, sub.r))
            : sub \in {ct_recursive(st, ct, 1, <<>>)}})

\* The body of the function, run on a cache miss.
TypeToStructureBody(st, ct) ==
  IF ~IsTuple(ct) THEN Raise(st, "ct is not a CTypeTreeType")
  ELSE IF Len(ct.fields) = 1
  THEN IF IsTuple(ct.fields[1])
       THEN CTypeTreeType_to_Structure(st, ct.fields[1])
       ELSE Return(st, ct.fields[1])
  ELSE The({IF sub.status # "return" THEN sub
            ELSE Return(NewClass(sub.st, sub.r), StructType(sub.st.next, sub.r))
            : sub \in {ct_recursive(st, ct, 1, <<>>)}})

\* @cache: a hit returns the remembered object, a miss runs the body and
\* remembers what it returned (an exception is not remembered).
CTypeTreeType_to_Structure(st, ct) ==
  IF Cached(st, ct) THEN Return(st, st.memo[ct])
  ELSE The({IF res.status # "return" THEN res
            ELSE Return(Remember(res.st, ct, res.r), res.r)
            : res \in {TypeToStructureBody(st, ct)}})

\* ---------------------------------------------------- ctypes.Structure(*args)
RECURSIVE ZeroOf(_)
ZeroOf(t) ==
  IF IsStructType(t)
  THEN Instance(t, [i \in 1..Len(t.fields) |-> ZeroOf(t.fields[i])])
  ELSE Val(0)

\* Storing the positional argument a in a field of type t.
FieldInit(t, a) ==
  IF IsStructType(t) THEN a ELSE Val(FieldStore(t, a.v))

FieldAccepts(t, a) ==
  IF IsStructType(t) THEN IsInstance(a) /\ a.ty = t ELSE a.kind = "val"

\* Calling a struct type (or, for a collapsed tree, a scalar type is never
\* called): fields are set positionally, the fields left over are zero.
NewStructure(st, t, args) ==
  IF Len(args) > Len(t.fields) THEN Raise(st, "too many initializers")
  ELSE IF \E i \in 1..Len(args) : ~FieldAccepts(t.fields[i], args[i])
  THEN Raise(st, "incompatible types")
  ELSE Return(st, Instance(t,
         [i \in 1..Len(t.fields) |->
            IF i <= Len(args) THEN FieldInit(t.fields[i], args[i])
            ELSE ZeroOf(t.fields[i])]))

\* ---------------------------------------------------- CTypeTree_to_Structure
RECURSIVE CTypeTree_to_Structure(_, _, _)
RECURSIVE c_recursive(_, _, _, _, _)

\* zip(ct, c, strict=False) stops at the shorter of the two
ZipLen(a, b) == IF Len(a) < Len(b) THEN Len(a) ELSE Len(b)

\* [(CTypeTree_to_Structure(t, val) if (isinstance(t, tuple) or
\*   isinstance(val, tuple)) else val) for t, val in zip(ct, c, strict=False)]
c_recursive(st, ct, c, i, acc) ==
  IF i > ZipLen(ct.fields, c.e) THEN Return(st, acc)
  ELSE IF IsTuple(ct.fields[i]) \/ IsVTuple(c.e[i])
  THEN The({IF sub.status # "return" THEN sub
            ELSE c_recursive(sub.st, ct, c, i + 1, Append(acc, sub.r))
            : sub \in {CTypeTree_to_Structure(st, ct.fields[i], c.e[i])}})
  ELSE c_recursive(st, ct, c, i + 1, Append(acc, c.e[i]))

DepthCheck(ct, c) == IsTuple(ct) /\ IsVTuple(c)
\* Variant: a value tuple longer than the type tuple passes the check.
LengthCheck_AtMost(ct, c) == Len(ct.fields) <= Len(c.e)
LengthCheck(ct, c) == Len(ct.fields) = Len(c.e)

CTypeTree_to_Structure(st, ct, c) ==
  IF ~DepthCheck(ct, c)
  THEN Raise(st, "CTypeTree and CTypeTreeType mismatch in terms of depth")
  ELSE IF ~LengthCheck(ct, c)
  THEN Raise(st, "CTypeTree and CTypeTreeType mismatch in terms of length")
  ELSE IF Len(ct.fields) = 1
  THEN IF IsTuple(ct.fields[1]) \/ IsVTuple(c.e[1])
       THEN CTypeTree_to_Structure(st, ct.fields[1], c.e[1])
       ELSE Return(st, c.e[1])
  ELSE The({IF sub.status # "return" THEN sub
            ELSE The({IF ty.status # "return" THEN ty
                      ELSE NewStructure(ty.st, ty.r, sub.r)
                      : ty \in {CTypeTreeType_to_Structure(sub.st, ct)}})
            : sub \in {c_recursive(st, ct, c, 1, <<>>)}})

\* -------------------------------------------------- CTypeTree_from_Structure
RECURSIVE CTypeTree_from_Structure(_, _)
RECURSIVE StripShells(_, _)
RECURSIVE StripMemberShells(_, _)
RECURSIVE Shells(_, _)
RECURSIVE from_fields(_, _, _, _)

\* while len(ct) == 1: num_tuple_shell += 1; if isinstance(ct[0], tuple): ct = ct[0]
\* When ct[0] is no tuple nothing changes and the loop runs for ever.
StripShells(ct, n) ==
  IF Len(ct.fields) = 1
  THEN IF IsTuple(ct.fields[1])
       THEN StripShells(ct.fields[1], n + 1)
       ELSE [hang |-> TRUE, ct |-> ct, n |-> n + 1]
  ELSE [hang |-> FALSE, ct |-> ct, n |-> n]

\* while isinstance(t, tuple) and len(t) == 1: num_member_tuple_shell += 1; t = t[0]
StripMemberShells(t, n) ==
  IF IsTuple(t) /\ Len(t.fields) = 1
  THEN StripMemberShells(t.fields[1], n + 1)
  ELSE [t |-> t, n |-> n]

\* for _ in range(n): val = (val,)
Shells(val, n) == IF n = 0 THEN val ELSE Shells(VTup(<<val>>), n - 1)

\* The loop over zip(ct, s._fields_, strict=False).
from_fields(ct, s, i, ret) ==
  IF i > ZipLen(ct.fields, s.ty.fields) THEN Return(EmptyCache, ret)
  ELSE The({IF val.status # "return" THEN val
            ELSE IF ~IsStructType(fieldtype) /\ m.t # fieldtype
            THEN Raise(EmptyCache, "type mismatch when converting back from Structure")
            ELSE from_fields(ct, s, i + 1, Append(ret, Shells(val.r, m.n)))
            : m \in {StripMemberShells(ct.fields[i], 0)},
              fieldtype \in {s.ty.fields[i]},
              val \in {IF IsStructType(s.ty.fields[i])
                       THEN CTypeTree_from_Structure(
                              StripMemberShells(ct.fields[i], 0).t, s.e[i])
                       ELSE Return(EmptyCache, s.e[i])}})

CTypeTree_from_Structure(ct, s) ==
  IF ~IsInstance(s) THEN Raise(EmptyCache, "s must be a Structure")
  ELSE IF ~IsTuple(ct) THEN Raise(EmptyCache, "ct must be a CTypeTreeType")
  ELSE The({IF strip.hang THEN Hang(EmptyCache)
            ELSE IF Len(strip.ct.fields) # Len(s.ty.fields)
            THEN Raise(EmptyCache, "length mismatch when converting back from Structure")
            ELSE The({IF body.status # "return" THEN body
                      ELSE Return(EmptyCache, Shells(VTup(body.r), strip.n))
                      : body \in {from_fields(strip.ct, s, 1, <<>>)}})
            : strip \in {StripShells(ct, 0)}})

\* ------------------------------------------------------------ typed values
\* The classes a signature may name: UInt8 (type.py) and Pair, an implementor of the SupportsCType protocol whose CType is a tuple
\* of two scalars (as a memref descriptor is a tuple of several).
DSLTypes == {"UInt8", "Pair"}

\* The scalar classes a return annotation may name beside them: UInt32 and
\* F64 (type.py), whose host values are an int and a float; and SInt8.
IntTypes == {"UInt8", "UInt32", "SInt8"}

IntWidth(typ) == IF typ = "UInt32" THEN 32 ELSE 8
IsUnsigned(typ) == typ \in {"UInt8", "UInt32"}

\* int(x) and float(x) of a host number
int_(x) == IF x.ty = c_double THEN Val(IF x.v < 0 THEN 0 - ((0 - x.v) \div 2) ELSE x.v \div 2) ELSE x
float_(x) == IF x.ty = c_double THEN x ELSE Dbl(2 * x.v)

RECURSIVE Pow2(_)
Pow2(n) == IF n = 0 THEN 1 ELSE 2 * Pow2(n - 1)

\* typ.CType()
CType(typ) ==
  CASE typ = "UInt8" -> Tup(<<c_uint8>>)
    [] typ = "UInt32" -> Tup(<<c_uint32>>)
    [] typ = "SInt8" -> Tup(<<c_int8>>)
    [] typ = "F64" -> Tup(<<c_double>>)
    [] typ = "Index" -> Tup(<<c_size_t>>)
    [] OTHER -> Tup(<<c_int8, c_uint8>>)

\* Index.PolyCType(), the one PolyCType of type.py
PolyCType(typ) == Tup(<<c_int>>)

\* The classmethods of the native mapping a class has.
Declares(typ) ==
  IF typ = "Index" THEN {"CType", "PolyCType", "to_CType", "from_CType"}
  ELSE {"CType", "to_CType", "from_CType"}

\* (1 << w) <= v, for the host ints in hand, which are all below 2^31
ShiftLE(w, v) == IF w >= 31 THEN FALSE ELSE Pow2(w) <= v

Int_to_CType_Unchecked(typ, pyval) == Return(EmptyCache, VTup(<<pyval>>))

\* Int.to_CType(pyval)
Int_to_CType(typ, pyval) ==
  IF pyval.kind # "val"
  THEN Raise(EmptyCache, "TypeError: cannot be converted into an Int ctype")
  ELSE The({IF ShiftLE(IntWidth(typ), n.v)
            THEN Raise(EmptyCache, "TypeError: cannot fit into an Int")
            ELSE IF IsUnsigned(typ) /\ n.v < 0
            THEN Raise(EmptyCache, "ValueError: expected positive pyval for signless Int")
            ELSE Return(EmptyCache, VTup(<<n>>))
            : n \in {int_(pyval)}})

\* typ.to_CType(pyval); the host value of a Pair is its tuple of fields.
to_CType(typ, pyval) ==
  CASE typ \in IntTypes -> Int_to_CType(typ, pyval)
    [] typ = "F64" -> IF pyval.kind # "val"
                      THEN Raise(EmptyCache, "TypeError: cannot be converted into a Float ctype")
                      ELSE Return(EmptyCache, VTup(<<float_(pyval)>>))
    [] typ = "Index" -> IF pyval.kind # "val"
                        THEN Raise(EmptyCache, "TypeError: cannot be converted into an Index ctype")
                        ELSE Return(EmptyCache, VTup(<<int_(pyval)>>))
    [] OTHER -> Return(EmptyCache, pyval)

\* typ.from_CType(cval): int(cval[0]) for an Int, float(cval[0]) for a Float
from_CType_Int(typ, cval) ==
  IF typ \in IntTypes \cup {"F64"} THEN int_(cval.e[1]) ELSE cval

from_CType(typ, cval) ==
  CASE typ \in IntTypes \cup {"Index"} -> int_(cval.e[1])
    [] typ = "F64" -> float_(cval.e[1])
    [] OTHER -> cval

\* PolyCTarget.type_to_CType, val_to_CType and val_from_CType: the Poly
\* classmethod where the class has it.  No class of the repository has
\* to_PolyCType or from_PolyCType, whose call is an AttributeError in them all.
Poly_type_to_CType_Plain(typ) == CType(typ)
Poly_type_to_CType(typ) ==
  IF "PolyCType" \in Declares(typ) THEN PolyCType(typ) ELSE CType(typ)

Poly_val_to_CType(typ, val) ==
  IF "to_PolyCType" \in Declares(typ) THEN Raise(EmptyCache, "AttributeError")
  ELSE to_CType(typ, val)

Poly_val_from_CType(typ, val) ==
  IF "from_PolyCType" \in Declares(typ) THEN Raise(EmptyCache, "AttributeError")
  ELSE Return(EmptyCache, from_CType(typ, val))

\* ------------------------------------------------------------- signatures
\* A function: the annotations of its parameters in declared order and its
\* return annotation (absent or None, one class, Tuple[...] or anything else).
RECURSIVE TypeSeqs(_)
TypeSeqs(n) ==
  IF n = 0 THEN {<<>>}
  ELSE TypeSeqs(n - 1) \cup {Append(q, t) : q \in {x \in TypeSeqs(n - 1) : Len(x) = n - 1}, t \in DSLTypes}

Annotation(k, ts) == [kind |-> k, types |-> ts]

ReturnAnnotations ==
  {Annotation("empty", <<>>), Annotation("other", <<>>)}
  \cup {Annotation("single", <<t>>) : t \in DSLTypes}
  \cup {Annotation("tuple", ts) : ts \in TypeSeqs(MaxReturns) \ {<<>>}}

Functions == {[params |-> ps, ret |-> a] : ps \in TypeSeqs(MaxParams), a \in ReturnAnnotations}

\* CTarget.get_return_type
get_return_type(f) ==
  CASE f.ret.kind = "empty" -> Return(EmptyCache, <<>>)
    [] f.ret.kind = "single" -> Return(EmptyCache, f.ret.types)
    [] f.ret.kind = "tuple" -> Return(EmptyCache, f.ret.types)
    [] OTHER -> Raise(EmptyCache, "TypeError: return type is not supported")

\* CTarget.type_to_CType
type_to_CType(typ) == CType(typ)

\* CTarget.get_return_ctypes: tuple(self.type_to_CType(t) for t in ret_t)
get_return_ctypes(f) ==
  LET ret_t == get_return_type(f) IN
  IF ret_t.status # "return" THEN ret_t
  ELSE Return(EmptyCache, Tup([i \in 1..Len(ret_t.r) |-> type_to_CType(ret_t.r[i])]))

\* CTarget.get_args_ctypes
get_args_ctypes(f) == Tup([i \in 1..Len(f.params) |-> type_to_CType(f.params[i])])

RECURSIVE Concat(_, _)
\* sum(ctypes, ()): the elements of the elements, one level
Concat(ts, i) == IF i > Len(ts) THEN <<>> ELSE ts[i].fields \o Concat(ts, i + 1)

\* Variant: a single leaf already counts as composite.
CompositeLength_AtLeastOne(n) == n >= 1
CompositeLength(n) == n > 1

\* CTarget.has_composite_return / has_void_return (the signature is valid)
has_composite_return(f) == CompositeLength(Len(Concat(get_return_ctypes(f).r.fields, 1)))
has_void_return(f) == Len(Concat(get_return_ctypes(f).r.fields, 1)) = 0

\* ---------------------------------------------------------------- CTarget
\* POINTER(t) if issubclass(t, Structure) else t
PointerWrap_ByValue(t) == t
PointerWrap(t) == IF IsStructType(t) THEN POINTER(t) ELSE t

RECURSIVE args_struct(_, _, _, _)
\* [CTypeTreeType_to_Structure(t) for t in self.get_args_ctypes(f)], wrapped
args_struct(st, cts, i, acc) ==
  IF i > Len(cts.fields) THEN Return(st, acc)
  ELSE The({IF sub.status # "return" THEN sub
            ELSE args_struct(sub.st, cts, i + 1, Append(acc, PointerWrap(sub.r)))
            : sub \in {CTypeTreeType_to_Structure(st, cts.fields[i])}})

\* args_struct.insert(0, ret_struct) and mapped_args.insert(0, retval)
InsertFirst_AtEnd(list, x) == Append(list, x)
InsertFirst(list, x) == <<x>> \o list

\* The ctypes function object load_function configures.
NotLoaded == [loaded |-> FALSE, restype |-> NoType, argtypes |-> <<>>]
SoF(restype, argtypes) == [loaded |-> TRUE, restype |-> restype, argtypes |-> argtypes]

\* CTarget.load_function, on a miss of its cache.  loadable: whether
\* cdll.LoadLibrary and the symbol lookup succeed on the built object.
load_function(st, f, loadable) ==
  IF get_return_ctypes(f).status # "return" THEN Raise(st, get_return_ctypes(f).err)
  ELSE The({IF ret.status # "return" THEN ret
            ELSE The({IF args.status # "return" THEN args
                      ELSE IF ~loadable
                      THEN Raise(args.st, "OSError: cannot load the library")
                      ELSE IF has_composite_return(f)
                      THEN Return(args.st, SoF(NoType, InsertFirst(args.r, ret_struct)))
                      ELSE Return(args.st, SoF(ret_struct, args.r))
                      : ret_struct \in {PointerWrap(ret.r)},
                        args \in {args_struct(ret.st, get_args_ctypes(f), 1, <<>>)}})
            : ret \in {CTypeTreeType_to_Structure(st, get_return_ctypes(f).r)}})

\* A value the compiled function produces for a scalar of type t at leaf
\* position i; seed selects one of the runs of the callee.
NativeValue(t, i, seed) ==
  CASE t = c_int8 -> 0 - (2 * i + seed)
    [] t = c_uint8 -> 100 + 2 * i + seed
    [] t = c_uint32 -> 5 + 2 * i + seed
    [] t = c_double -> 3 + 2 * i + seed
    [] OTHER -> 1000 + 2 * i + seed

\* What reading a field of type t gives: a float for a c_double (the callee's
\* number counted in halves), an int for the integer types.
FieldValue(t, n) == IF t = c_double THEN Dbl(n) ELSE Val(n)

RECURSIVE WriteResult(_, _, _)
RECURSIVE WriteFields(_, _, _, _, _)
\* The callee writing its result through the pointer to the return struct.
\* Returns [v |-> the struct afterwards, i |-> next leaf position].
WriteFields(t, k, i, seed, acc) ==
  IF k > Len(t.fields) THEN [v |-> acc, i |-> i]
  ELSE The({WriteFields(t, k + 1, sub.i, seed, Append(acc, sub.v))
            : sub \in {WriteResult(t.fields[k], i, seed)}})

WriteResult(t, i, seed) ==
  IF IsStructType(t)
  THEN The({[v |-> Instance(t, sub.v), i |-> sub.i] : sub \in {WriteFields(t, 1, i, seed, <<>>)}})
  ELSE [v |-> FieldValue(t, NativeValue(t, i, seed)), i |-> i + 1]

RECURSIVE mapped_args_ct(_, _, _, _)
\* [(ct, self.val_to_CType(annotation, a)) for ct, key, a in zip(...)]
mapped_args_ct(f, args, i, acc) ==
  IF i > ZipLen(f.params, args) THEN Return(EmptyCache, acc)
  ELSE The({IF v.status # "return" THEN v
            ELSE mapped_args_ct(f, args, i + 1, Append(acc, v.r))
            : v \in {to_CType(f.params[i], args[i])}})

RECURSIVE mapped_args(_, _, _, _, _)
\* [CTypeTree_to_Structure(*i) for i in mapped_args_ct]
mapped_args(st, cts, vals, i, acc) ==
  IF i > Len(vals) THEN Return(st, acc)
  ELSE The({IF sub.status # "return" THEN sub
            ELSE mapped_args(sub.st, cts, vals, i + 1, Append(acc, sub.r))
            : sub \in {CTypeTree_to_Structure(st, cts.fields[i], vals[i])}})

\* tuple(self.val_from_CType(t, ct) for t, ct in zip(ret_t, retval_ct))
ReturnTuple(ret_t, retval_ct) ==
  VTup([i \in 1..ZipLen(ret_t, retval_ct.e) |-> from_CType(ret_t[i], retval_ct.e[i])])

\* hasattr(self, "_so")
IsCompiled_Always(t) == TRUE
IsCompiled(t) == t.has_so

\* What one call_function leaves behind (did_load: cdll.LoadLibrary ran).
NoCall ==
  [made |-> FALSE, had_so |-> FALSE, did_load |-> FALSE, args |-> <<>>,
   status |-> "none", err |-> "", value |-> NoVal,
   invoked |-> FALSE, native_args |-> <<>>, native_ret |-> NoVal, ret_struct |-> NoVal]

Failed(t, args, did_load, err) ==
  [NoCall EXCEPT !.made = TRUE, !.had_so = t.has_so, !.did_load = did_load,
                 !.args = args, !.status = "raise", !.err = err]

\* The composite branch of CTarget.call_function: the zero-initialised return
\* struct goes first, the callee writes through it, the struct is read back.
CallComposite(done, st, f, margs, seed) ==
  The({The({IF retval_ct.status # "return"
            THEN [call |-> [inv EXCEPT !.status = retval_ct.status, !.err = retval_ct.err],
                  st |-> ty.st]
            ELSE [call |-> [inv EXCEPT !.value = ReturnTuple(get_return_type(f).r, retval_ct.r)],
                  st |-> ty.st]
            : retval_ct \in {CTypeTree_from_Structure(get_return_ctypes(f).r, written)},
              inv \in {[done EXCEPT !.native_args = InsertFirst(margs, ZeroOf(ty.r)),
                                    !.ret_struct = written]}})
       : ty \in {CTypeTreeType_to_Structure(st, get_return_ctypes(f).r)},
         written \in {WriteResult(CTypeTreeType_to_Structure(st, get_return_ctypes(f).r).r,
                                  1, seed).v}})

\* The non-composite branch: the native return value is converted.
CallScalar(done, st, so_f, f, seed) ==
  The({[call |-> [done EXCEPT !.native_ret = nat,
                              !.value = from_CType(get_return_type(f).r[1], VTup(<<nat>>))],
        st |-> st]
       : nat \in {FieldValue(so_f.restype, NativeValue(so_f.restype, 1, seed))}})

\* len(sig.parameters) == len(args)
CountCheck_AtLeast(g, args) == Len(g.params) <= Len(args)
CountCheck(g, args) == Len(g.params) = Len(args)

\* f"{f.__qualname__} takes {n} positional argument{'s' if n > 1 else ''}
\*   but {m} were given"
CountError(n, m) ==
  "TypeError: f takes " \o ToString(n) \o " positional argument"
    \o (IF n > 1 THEN "s" ELSE "") \o " but " \o ToString(m) \o " were given"

\* The part of CTarget.call_function after so_f = self.load_function(f).
\* Returns [call, st]: the record of the call and the struct cache.
CallLoaded(failed, st, so_f, f, args, seed) ==
  IF ~CountCheck(f, args)
  THEN [call |-> [failed EXCEPT !.err = CountError(Len(f.params), Len(args))], st |-> st]
  ELSE The({
    IF cts.status # "return"
    THEN [call |-> [failed EXCEPT !.err = cts.err], st |-> st]
    ELSE The({
      IF ma.status # "return"
      THEN [call |-> [failed EXCEPT !.err = ma.err], st |-> ma.st]
      ELSE The({
        IF has_void_return(f) THEN [call |-> done, st |-> ma.st]
        ELSE IF ~has_composite_return(f) THEN CallScalar(done, ma.st, so_f, f, seed)
        ELSE CallComposite(done, ma.st, f, ma.r, seed)
        : done \in {[failed EXCEPT !.invoked = TRUE, !.status = "return",
                                   !.native_args = ma.r]}})
      : ma \in {mapped_args(st, get_args_ctypes(f), cts.r, 1, <<>>)}})
    : cts \in {mapped_args_ct(f, args, 1, <<>>)}})

\* CTarget.call_function(f, *args).  Returns [call, st, so_f].
call_function(t, st, so_f, f, args, loadable, seed) ==
  IF ~IsCompiled(t)
  THEN [call |-> Failed(t, args, FALSE, "RuntimeError: called before it is compiled"),
        st |-> st, so_f |-> so_f]
  ELSE The({
    IF lf.status # "return"
    THEN [call |-> Failed(t, args, lf.err = "OSError: cannot load the library", lf.err),
          st |-> lf.st, so_f |-> so_f]
    ELSE The({[call |-> r.call, st |-> r.st, so_f |-> lf.r]
              : r \in {CallLoaded(Failed(t, args, ~so_f.loaded, ""),
                                  lf.st, lf.r, f, args, seed)}})
    : lf \in {IF so_f.loaded THEN Return(st, so_f) ELSE load_function(st, f, loadable)}})

\* ------------------------------------------------------------ PolyCTarget
\* PolyCTarget.get_return_ctypes and has_composite_return
Poly_get_return_ctypes(f) ==
  The({IF ret_t.status # "return" THEN ret_t
       ELSE Return(EmptyCache,
                   Tup([i \in 1..Len(ret_t.r) |-> Poly_type_to_CType(ret_t.r[i])]))
       : ret_t \in {get_return_type(f)}})

Poly_has_composite_return(f) ==
  CompositeLength(Len(Concat(Poly_get_return_ctypes(f).r.fields, 1)))

\* PolyCTarget.build(src): what it raises and the target it leaves.
Poly_build_Compiles(t) == [err |-> "", tgt |-> [t EXCEPT !.has_so = TRUE]]
Poly_build(t) == [err |-> "NotImplementedError", tgt |-> t]

\* PolyCTarget.call_function(f, *args).  After its first check the method is
\* CTarget.call_function statement for statement, on classes without a Poly
\* mapping.
Poly_call_function(t, st, so_f, f, args, loadable, seed) ==
  IF Poly_get_return_ctypes(f).status # "return"
  THEN [call |-> Failed(t, args, FALSE, Poly_get_return_ctypes(f).err),
        st |-> st, so_f |-> so_f]
  ELSE IF Poly_has_composite_return(f)
  THEN [call |-> Failed(t, args, FALSE,
                        "RuntimeError: PolyCTarget cannot call f because it has composite return type"),
        st |-> st, so_f |-> so_f]
  ELSE call_function(t, st, so_f, f, args, loadable, seed)

\* -------------------------------------------------------------- DSL types
\* A class of type.py is a record; an Int subclass is given by the width and
\* sign of its class statement (class UInt8(Int, width=8, sign=Sign.UNSIGNED)).
SIGNED == "Sign.SIGNED"
UNSIGNED == "Sign.UNSIGNED"
Signs == {SIGNED, UNSIGNED}

IntClass(w, sg) == [family |-> "Int", width |-> w, sign |-> sg]
IntClasses == {IntClass(w, sg) : w \in 1..MaxWidth, sg \in Signs}

\* The other castable classes: Bool (an Int of width 1 with its own
\* supporter and __init__), Index (an Int of the platform's width with its own
\* supporter, Int method and native type), the Float classes; and Number.
BoolClass == [family |-> "Bool", width |-> 1, sign |-> UNSIGNED]
IndexClass == [family |-> "Index", width |-> IndexWidth, sign |-> UNSIGNED]
FloatClass(w) ==
  [family |-> "Float", width |-> w,
   mlir_type |-> [kind |-> "float", width |-> w, signless |-> TRUE]]
FloatClasses == {FloatClass(w) : w \in FloatWidths}
NumberClass == [family |-> "Number"]

\* The base classes.  Int itself has width = None and sign = None (None is
\* written 0 for the width); Float itself only annotates width and mlir_type,
\* so that the class has no such attributes.
BaseInt == [family |-> "Int", width |-> 0, sign |-> "None"]
BaseFloat == [family |-> "Float"]
hasattr(cls, name) == name \in DOMAIN cls

IndexType == [kind |-> "index", width |-> IndexWidth, signless |-> TRUE]
FloatType(w) == [kind |-> "float", width |-> w, signless |-> TRUE]

\* MLIR: the signless integer type of a width, and a value of a type, known
\* by its bit pattern (a natural number below 2^width).
IntegerType(w) == [kind |-> "integer", width |-> w, signless |-> TRUE]
MValue(t, bits) == [kind |-> "mlir", type |-> t, bits |-> bits]
\* arith.ConstantOp(type, rep).result.  For the index type every number that
\* passed the range check is its own bit pattern.
ConstantOp(t, n) == MValue(t, IF t.width = IndexWidth THEN n ELSE n % Pow2(t.width))

\* Host values handed to a constructor: a Python int, or an MLIR value.
Lit(n) == [kind |-> "int", v |-> n]
\* A Python float: n + 0.0 or n + 0.5, and the floats inf and nan.
HostFloat(n, frac) == [kind |-> "float", v |-> n, frac |-> frac]
Inf == [kind |-> "inf"]
NaN == [kind |-> "nan"]
\* An instance of a DSL class wrapping an MLIR value.
Inst(cls, value) == [kind |-> "dsl", cls |-> cls, value |-> value]

\* Int.lower_class, Index.lower_class
lower_class(cls) == IF cls.family = "Index" THEN IndexType ELSE IntegerType(cls.width)

\* Variant: the unsigned range reaches the largest bit pattern.
val_range_Full(cls) ==
  IF cls.sign = SIGNED
  THEN <<0 - Pow2(cls.width - 1), Pow2(cls.width - 1)>>
  ELSE <<0, Pow2(cls.width) - 1>>
\* Int.val_range
val_range(cls) ==
  IF cls.sign = SIGNED
  THEN <<0 - Pow2(cls.width - 1), Pow2(cls.width - 1)>>
  ELSE <<0, Pow2(cls.width) - 2>>

\* Int.in_range.  For a class of the index width the numbers drawn all lie
\* below the upper end, and above the lower end of a signed class.
in_range(cls, val) ==
  IF cls.width = IndexWidth
  THEN cls.sign = SIGNED \/ 0 <= val
  ELSE val_range(cls)[1] <= val /\ val <= val_range(cls)[2]

\* Index._init_from_mlir_value
Index_init_from_mlir_value(cls, rep) ==
  IF rep.type.kind # "index"
  THEN Raise(EmptyCache, "TypeError: cannot be casted as an Index")
  ELSE Return(EmptyCache, Inst(cls, rep))

\* Int._init_from_mlir_value
init_from_mlir_value(cls, rep) ==
  IF cls.family = "Index" THEN Index_init_from_mlir_value(cls, rep)
  ELSE IF rep.type.kind # "integer"
  THEN Raise(EmptyCache, "TypeError: cannot be casted as an Int class")
  ELSE IF rep.type.width # cls.width
  THEN Raise(EmptyCache, "TypeError: expected to have another width")
  ELSE IF ~rep.type.signless
  THEN Raise(EmptyCache, "TypeError: must have signless result")
  ELSE Return(EmptyCache, Inst(cls, rep))

\* An operation (OpView) and its result.
OpView(result) == [kind |-> "opview", result |-> result]

\* Int.__init__(self, rep), after: if isinstance(rep, OpView): rep = rep.result.
\* The guard of the first case, math.isclose(rep, int(rep)), is evaluated for
\* every real number: int() raises OverflowError for inf and ValueError for nan.
Int_init_rep(cls, rep) ==
  CASE rep.kind \in {"int", "bool"} \/ (rep.kind = "float" /\ rep.frac = "zero") ->
         IF ~in_range(cls, rep.v)
         THEN Raise(EmptyCache, "ValueError: out of range")
         ELSE Return(EmptyCache, Inst(cls, ConstantOp(lower_class(cls), rep.v)))
    [] rep.kind = "inf" ->
         Raise(EmptyCache, "OverflowError: cannot convert float infinity to integer")
    [] rep.kind = "nan" ->
         Raise(EmptyCache, "ValueError: cannot convert float NaN to integer")
    [] rep.kind = "mlir" -> init_from_mlir_value(cls, rep)
    [] OTHER -> Raise(EmptyCache, "TypeError: cannot be casted as an Int")

\* Int.__init__(self, rep)
Int_init(cls, rep) ==
  IF cls.width = 0 \/ cls.sign = "None"
  THEN Raise(EmptyCache, "TypeError: attempted to initialize without defined size or sign")
  ELSE Int_init_rep(cls, IF rep.kind = "opview" THEN rep.result ELSE rep)

\* arith.ExtSIOp(type, value) and arith.ExtUIOp(type, value) on bit patterns
ExtSIOp(t, v) ==
  OpView(MValue(t, IF v.bits >= Pow2(v.type.width - 1)
                   THEN v.bits + Pow2(t.width) - Pow2(v.type.width)
                   ELSE v.bits))
ExtUIOp(t, v) == OpView(MValue(t, v.bits))

\* Host values besides int: a bool, and anything else (a str, None, ...).
BoolLit(b) == [kind |-> "bool", v |-> IF b THEN 1 ELSE 0]
Other == [kind |-> "other"]

\* The methods through which an object satisfies the supporter protocols
\* (SupportsInt, SupportsBool, ...): those its class defines or inherits.
Methods(x) ==
  IF x.kind # "dsl" THEN {}
  ELSE CASE x.cls.family = "Int" -> {"Int", "Float"}
         [] x.cls.family = "Bool" -> {"Int", "Float", "Bool"}
         [] x.cls.family = "Index" -> {"Int", "Float", "Index"}
         [] x.cls.family = "Float" -> {"Float"}
         [] x.cls.family = "Number" -> {"Int", "Float", "Index"}
         [] OTHER -> {}

\* Variant: Bool and Index keep the supporter of Int, their base class.
supporter_OfBase(cls) ==
  CASE cls.family \in {"Int", "Bool", "Index"} -> "Int"
    [] cls.family = "Float" -> "Float"
    [] OTHER -> "none"
\* cls.supporter, named by the method the protocol asks for
supporter(cls) ==
  CASE cls.family = "Int" -> "Int"
    [] cls.family = "Bool" -> "Bool"
    [] cls.family = "Index" -> "Index"
    [] cls.family = "Float" -> "Float"
    [] OTHER -> "none"

\* isinstance(rep, cls.supporter)
Supports(cls, x) == supporter(cls) \in Methods(x)

RECURSIVE Supportable_call(_, _)

\* Int._try_casting
try_casting(cls, val) == Supportable_call(cls, <<val>>)

\* Variant: a narrower target is accepted like one of equal width.
WidthCheck_None(self, target_type) == FALSE
\* target_type.width < self.width
WidthCheck(self, target_type) == target_type.width < self.cls.width

\* Int.Int(self, target_type)
Int_Int(self, target_type) ==
  IF target_type.sign # self.cls.sign
  THEN Raise(EmptyCache, "TypeError: Int cannot be casted into another Int with differing signs")
  ELSE IF WidthCheck(self, target_type)
  THEN Raise(EmptyCache, "TypeError: Width must be extended")
  ELSE IF target_type.width = self.cls.width
  THEN try_casting(target_type, self.value)
  ELSE IF self.cls.sign = SIGNED
  THEN try_casting(target_type, ExtSIOp(lower_class(target_type), self.value))
  ELSE try_casting(target_type, ExtUIOp(lower_class(target_type), self.value))

\* Index.Int(self, cls): arith.index_cast / index_castui to the width of cls
Index_Int(self, cls) ==
  IF self.cls.sign # cls.sign
  THEN Raise(EmptyCache, "TypeError: attempt to cast Index to an Int of different sign")
  ELSE Supportable_call(cls,
         <<MValue(IntegerType(cls.width), self.value.bits % Pow2(cls.width))>>)

\* Number.Int(self, target_type) and Number.Float: target_type(self.value)
Number_Int(self, target_type) == Supportable_call(target_type, <<self.value>>)

\* Number.Index(self): Index(self.value)
Number_Index(self) == Supportable_call(IndexClass, <<self.value>>)

\* Int.Float(self, target_type): arith.sitofp / uitofp; Float.Float: extf,
\* truncf or the value itself.  The number is carried over as it is.
To_Float(self, target_type) ==
  IF ~hasattr(target_type, "width") \/ ~hasattr(target_type, "mlir_type")
  THEN Raise(EmptyCache, "AttributeError")
  ELSE Supportable_call(target_type,
         <<MValue(FloatType(target_type.width), self.value.bits)>>)

\* cls.caster(cls, rep): rep.Int(cls), rep.Bool(), rep.Index(), rep.Float(cls)
caster(cls, x) ==
  CASE cls.family = "Int" /\ x.cls.family \in {"Int", "Bool"} -> Int_Int(x, cls)
    [] cls.family = "Int" /\ x.cls.family = "Index" -> Index_Int(x, cls)
    [] cls.family = "Int" /\ x.cls.family = "Number" -> Number_Int(x, cls)
    [] cls.family = "Bool" -> Return(EmptyCache, x)
    [] cls.family = "Index" /\ x.cls.family = "Index" -> Return(EmptyCache, x)
    [] cls.family = "Index" /\ x.cls.family = "Number" -> Number_Index(x)
    [] cls.family = "Float" /\ x.cls.family = "Number" -> Number_Int(x, cls)
    [] cls.family = "Float" -> To_Float(x, cls)
    [] OTHER -> Raise(EmptyCache, "AttributeError")

\* Bool.__init__(self, rep)
Bool_init(cls, rep) ==
  IF rep.kind = "bool"
  THEN Return(EmptyCache, Inst(cls, ConstantOp(IntegerType(1), rep.v)))
  ELSE Int_init(cls, rep)

\* Float.__init__(self, rep), after: if isinstance(rep, OpView): rep = rep.result
Float_init_rep(cls, rep) ==
  CASE rep.kind \in {"int", "bool"} ->
         Return(EmptyCache, Inst(cls, MValue(FloatType(cls.width), rep.v)))
    [] rep.kind \in {"float", "inf", "nan"} ->
         Return(EmptyCache, Inst(cls, MValue(FloatType(cls.width), rep)))
    [] rep.kind = "mlir" ->
         IF rep.type # cls.mlir_type
         THEN Raise(EmptyCache, "TypeError: cannot be casted as a Float class")
         ELSE Return(EmptyCache, Inst(cls, rep))
    [] OTHER -> Raise(EmptyCache, "TypeError: cannot be casted as a Float class")

\* Float.__init__(self, rep): it reads self.width and self.mlir_type first
Float_init(cls, rep) ==
  IF ~hasattr(cls, "width") \/ ~hasattr(cls, "mlir_type")
  THEN Raise(EmptyCache, "AttributeError")
  ELSE IF cls.width = 0
  THEN Raise(EmptyCache, "TypeError: attempted to initialize Float without defined width or mlir_type")
  ELSE Float_init_rep(cls, IF rep.kind = "opview" THEN rep.result ELSE rep)

\* super().__call__(*args): the class's own __init__, which takes one rep
NormalInit(cls, args) ==
  IF Len(args) # 1
  THEN Raise(EmptyCache, "TypeError: __init__() takes 2 positional arguments")
  ELSE CASE cls.family \in {"Int", "Index"} -> Int_init(cls, args[1])
         [] cls.family = "Bool" -> Bool_init(cls, args[1])
         [] cls.family = "Float" -> Float_init(cls, args[1])
         [] OTHER -> Raise(EmptyCache, "no class")

\* Which branch of Supportable.__call__ a call takes.
Dispatch(cls, args) ==
  IF Len(args) = 1 /\ Supports(cls, args[1]) THEN "caster" ELSE "init"

\* Supportable.__call__(cls, *args)
Supportable_call(cls, args) ==
  IF Dispatch(cls, args) = "caster"
  THEN caster(cls, args[1])
  ELSE NormalInit(cls, args)

\* ---------------------------------------------------------------- operators
\* The number a signless value stands for when an operation reads it as signed.
SValue(v) ==
  IF v.bits >= Pow2(v.type.width - 1) THEN v.bits - Pow2(v.type.width) ELSE v.bits

\* Python's a // b for b # 0
FloorDiv(a, b) == IF b > 0 THEN a \div b ELSE (0 - a) \div (0 - b)

\* arith.AddIOp, SubIOp, MulIOp: modulo 2^width
AddIOp(l, r) == OpView(MValue(l.type, (l.bits + r.bits) % Pow2(l.type.width)))
SubIOp(l, r) == OpView(MValue(l.type, (l.bits - r.bits) % Pow2(l.type.width)))
MulIOp(l, r) == OpView(MValue(l.type, (l.bits * r.bits) % Pow2(l.type.width)))

\* arith.DivUIOp and arith.FloorDivSIOp.  Division by zero, and the signed
\* division that overflows, are undefined: the result is then u, any bit
\* pattern of the width.
DivUIOp(l, r, u) ==
  OpView(MValue(l.type, IF r.bits = 0 THEN u ELSE l.bits \div r.bits))
FloorDivSIOp(l, r, u) ==
  OpView(MValue(l.type,
    IF SValue(r) = 0 \/ (SValue(l) = 0 - Pow2(l.type.width - 1) /\ SValue(r) = 0 - 1)
    THEN u
    ELSE FloorDiv(SValue(l), SValue(r)) % Pow2(l.type.width)))

\* arith.CmpIOp(pred, l, r): an i1
CmpIOp(pred, l, r) ==
  OpView(MValue(IntegerType(1),
    IF CASE pred = "eq" -> l.bits = r.bits
         [] pred = "ne" -> l.bits # r.bits
         [] pred = "slt" -> SValue(l) < SValue(r)
         [] pred = "sle" -> SValue(l) <= SValue(r)
         [] pred = "sgt" -> SValue(l) > SValue(r)
         [] pred = "sge" -> SValue(l) >= SValue(r)
         [] pred = "ult" -> l.bits < r.bits
         [] pred = "ule" -> l.bits <= r.bits
         [] pred = "ugt" -> l.bits > r.bits
         [] pred = "uge" -> l.bits >= r.bits
    THEN 1 ELSE 0))

\* Int._compare_with_pred(self, rhs, pred)
compare_with_pred(self, rhs, pred) ==
  The({IF o.status # "return" THEN o
       ELSE Supportable_call(BoolClass, <<CmpIOp(pred, self.value, o.r.value)>>)
       : o \in {try_casting(self.cls, rhs)}})

\* The binary operator methods Int defines.
IntMethods ==
  {"op_add", "op_radd", "op_sub", "op_rsub", "op_mul", "op_rmul",
   "op_floordiv", "op_rfloordiv",
   "op_lt", "op_le", "op_eq", "op_ne", "op_gt", "op_ge"}

\* Variant: the reflected subtraction keeps self on the left.
ReflectedSub_SelfFirst(self, lhs) == SubIOp(self.value, lhs.value)
\* The operation Int.op_rsub builds: "note that operators are reversed"
ReflectedSub(self, lhs) == SubIOp(lhs.value, self.value)

\* getattr(self, name)(other) for an Int instance self: Int.op_add ..
\* Int.op_ge.  Every method first casts the other operand to the class of
\* self.
Int_method(name, self, other, u) ==
  IF name \notin IntMethods
  THEN Raise(EmptyCache, "AttributeError")
  ELSE The({
    IF o.status # "return" THEN o
    ELSE CASE name \in {"op_add", "op_radd"} ->
                try_casting(self.cls, AddIOp(self.value, o.r.value))
           [] name = "op_sub" ->
                try_casting(self.cls, SubIOp(self.value, o.r.value))
           [] name = "op_rsub" ->
                try_casting(self.cls, ReflectedSub(self, o.r))
           [] name \in {"op_mul", "op_rmul"} ->
                try_casting(self.cls, MulIOp(self.value, o.r.value))
           [] name = "op_floordiv" ->
                try_casting(self.cls,
                  IF self.cls.sign = SIGNED
                  THEN FloorDivSIOp(self.value, o.r.value, u)
                  ELSE DivUIOp(self.value, o.r.value, u))
           [] name = "op_rfloordiv" ->
                try_casting(self.cls,
                  IF self.cls.sign = SIGNED
                  THEN FloorDivSIOp(o.r.value, self.value, u)
                  ELSE DivUIOp(o.r.value, self.value, u))
           [] name = "op_lt" ->
                compare_with_pred(self, o.r, IF self.cls.sign = SIGNED THEN "slt" ELSE "ult")
           [] name = "op_le" ->
                compare_with_pred(self, o.r, IF self.cls.sign = SIGNED THEN "sle" ELSE "ule")
           [] name = "op_eq" -> compare_with_pred(self, o.r, "eq")
           [] name = "op_ne" -> compare_with_pred(self, o.r, "ne")
           [] name = "op_gt" ->
                compare_with_pred(self, o.r, IF self.cls.sign = SIGNED THEN "sgt" ELSE "ugt")
           [] name = "op_ge" ->
                compare_with_pred(self, o.r, IF self.cls.sign = SIGNED THEN "sge" ELSE "uge")
    : o \in {try_casting(self.cls, other)}})

\* The result of an operation of the index dialect, known by the operation
\* that was emitted and its operands.
IndexResult(emitted, l, r) ==
  OpView([kind |-> "mlir", type |-> IndexType, emitted |-> emitted, operands |-> <<l, r>>])

\* The binary operator methods Index defines itself.
IndexMethods ==
  {"op_add", "op_radd", "op_sub", "op_rsub", "op_mul", "op_rmul",
   "op_truediv", "op_rtruediv", "op_floordiv", "op_rfloordiv"}

\* getattr(self, name)(other) for an Index instance self: Index.op_add ..
\* Index.op_rfloordiv
Index_method(name, self, other) ==
  IF name \notin IndexMethods
  THEN Raise(EmptyCache, "AttributeError")
  ELSE IF name \in {"op_truediv", "op_rtruediv"}
  THEN Raise(EmptyCache, "NotImplementedError")
  ELSE The({
    IF o.status # "return" THEN o
    ELSE CASE name \in {"op_add", "op_radd"} ->
                Supportable_call(self.cls, <<IndexResult("index.add", self.value, o.r.value)>>)
           [] name = "op_sub" ->
                Supportable_call(self.cls, <<IndexResult("index.sub", self.value, o.r.value)>>)
           [] name = "op_rsub" ->
                Supportable_call(self.cls, <<IndexResult("index.sub", o.r.value, self.value)>>)
           [] name \in {"op_mul", "op_rmul"} ->
                Supportable_call(self.cls, <<IndexResult("index.mul", self.value, o.r.value)>>)
           [] name = "op_floordiv" ->
                Supportable_call(self.cls, <<IndexResult("index.floordivs", self.value, o.r.value)>>)
           [] name = "op_rfloordiv" ->
                Supportable_call(self.cls, <<IndexResult("index.floordivs", o.r.value, self.value)>>)
    : o \in {Supportable_call(self.cls, <<other>>)}})

\* Python's ^, | and & on two ints of any sign, bit by bit.
RECURSIVE BitOp(_, _, _)
BitOp(f, a, b) ==
  IF a \in {0, 0 - 1} /\ b \in {0, 0 - 1}
  THEN CASE f = "xor" -> IF a = b THEN 0 ELSE 0 - 1
         [] f = "or" -> IF a = 0 /\ b = 0 THEN 0 ELSE 0 - 1
         [] f = "and" -> IF a = 0 \/ b = 0 THEN 0 ELSE 0 - 1
  ELSE 2 * BitOp(f, a \div 2, b \div 2)
       + (CASE f = "xor" -> ((a % 2) + (b % 2)) % 2
            [] f = "or" -> IF (a % 2) = 1 \/ (b % 2) = 1 THEN 1 ELSE 0
            [] f = "and" -> IF (a % 2) = 1 /\ (b % 2) = 1 THEN 1 ELSE 0)

\* A host value: a number, or the outcome of a comparison.
HostBool(b) == [kind |-> "bool", v |-> IF b THEN 1 ELSE 0]

\* The functions of the operator module that bin_number_op names.
internal_op(fn, a, b) ==
  CASE fn = "add" -> Lit(a + b)
    [] fn = "sub" -> Lit(a - b)
    [] fn = "mul" -> Lit(a * b)
    [] fn = "floordiv" -> Lit(FloorDiv(a, b))
    [] fn = "xor" -> Lit(BitOp("xor", a, b))
    [] fn = "or_" -> Lit(BitOp("or", a, b))
    [] fn = "and_" -> Lit(BitOp("and", a, b))
    [] fn = "lt" -> HostBool(a < b)
    [] fn = "le" -> HostBool(a <= b)
    [] fn = "eq" -> HostBool(a = b)
    [] fn = "ge" -> HostBool(a >= b)
    [] fn = "gt" -> HostBool(a > b)

BinNumberOp(ldunder_name, fn, rdunder_name, default_ret_type) ==
  [ldunder_name |-> ldunder_name, internal_op |-> fn,
   rdunder_name |-> rdunder_name, default_ret_type |-> default_ret_type]

\* bin_number_op, without the entries for truediv, pow, divmod, mod and the
\* shifts.
bin_number_op ==
  {BinNumberOp("op_add", "add", "op_radd", "Number"),
   BinNumberOp("op_sub", "sub", "op_rsub", "Number"),
   BinNumberOp("op_mul", "mul", "op_rmul", "Number"),
   BinNumberOp("op_floordiv", "floordiv", "op_rfloordiv", "Number"),
   BinNumberOp("op_and", "and_", "op_rand", "Number"),
   BinNumberOp("op_xor", "xor", "op_rxor", "Number"),
   BinNumberOp("op_xor", "or_", "op_ror", "Number"),
   BinNumberOp("op_lt", "lt", "op_gt", "Bool"),
   BinNumberOp("op_le", "le", "op_ge", "Bool"),
   BinNumberOp("op_eq", "le", "op_eq", "Bool"),
   BinNumberOp("op_ge", "ge", "op_le", "Bool"),
   BinNumberOp("op_gt", "gt", "op_lt", "Bool")}

\* The entries setattr(Number, ldunder_name, ...) may leave installed under
\* a name: the loop runs over a set, so of two entries with one name the one
\* iterated last stays, and the order of iteration is not fixed.
Installed(name) == {tup \in bin_number_op : tup.ldunder_name = name}

\* Number(rep)
NumberOf(rep) == Inst(NumberClass, rep)

\* generic_bin_op(self, rhs) as generated for the entry tup
generic_bin_op(tup, self, rhs, u) ==
  IF rhs.kind = "dsl" /\ rhs.cls.family = "Number"
  THEN IF tup.internal_op = "floordiv" /\ rhs.value.v = 0
       THEN Raise(EmptyCache, "ZeroDivisionError")
       ELSE IF tup.default_ret_type = "Number"
       THEN Return(EmptyCache,
                   NumberOf(internal_op(tup.internal_op, self.value.v, rhs.value.v)))
       ELSE Supportable_call(BoolClass,
                   <<internal_op(tup.internal_op, self.value.v, rhs.value.v)>>)
  ELSE Int_method(tup.rdunder_name, rhs, self, u)

\* arith.SelectOp(condition, true_value, false_value)
SelectOp(condition, true_value, false_value) ==
  OpView(IF condition.bits = 1 THEN true_value ELSE false_value)

\* Bool.on_Not
on_Not_Swapped(self) ==
  Supportable_call(BoolClass,
    <<SelectOp(self.value, ConstantOp(IntegerType(1), 1), ConstantOp(IntegerType(1), 0))>>)

on_Not(self) ==
  Supportable_call(BoolClass,
    <<SelectOp(self.value, ConstantOp(IntegerType(1), 0), ConstantOp(IntegerType(1), 1))>>)

\* The names of un_number_op, and the attributes of that kind a host number
\* has: its dunder methods (a float has no __invert__).
un_number_op ==
  {"op_neg", "op_pos", "op_abs", "op_trunc", "op_floor", "op_ceil", "op_round", "op_invert"}

HostAttributes(x) ==
  CASE x.kind \in {"int", "bool"} ->
         {"__neg__", "__pos__", "__abs__", "__trunc__", "__floor__", "__ceil__",
          "__round__", "__invert__"}
    [] x.kind \in {"float", "inf", "nan"} ->
         {"__neg__", "__pos__", "__abs__", "__trunc__", "__floor__", "__ceil__",
          "__round__"}
    [] OTHER -> {}

\* x.name() for an int x and one of its dunder methods
HostMethod(name, x) ==
  CASE name = "__neg__" -> Lit(0 - x.v)
    [] name = "__abs__" -> Lit(IF x.v < 0 THEN 0 - x.v ELSE x.v)
    [] name = "__invert__" -> Lit(0 - x.v - 1)
    [] OTHER -> Lit(x.v)

\* generic_unary_op(self) as generated for the name op:
\* Number(getattr(self.value, op)())
generic_unary_op(op, self) ==
  IF op \notin HostAttributes(self.value)
  THEN Raise(EmptyCache, "AttributeError")
  ELSE Return(EmptyCache, NumberOf(HostMethod(op, self.value)))

\* The record of one operation on the classes: name (what ran), cls, arg,
\* out (its outcome) and, for a call of a class, the branch it took; for a
\* binary operator fn, arg is the left operand and other the right one.
NoOp ==
  [name |-> "none", cls |-> NoType, arg |-> NoVal, path |-> "",
   fn |-> "", other |-> NoVal,
   out |-> Return(EmptyCache, NoVal)]
\* lhs.fn(rhs): the operands of a binary operator
BinOperands(fn, lhs, rhs) ==
  [NoOp EXCEPT !.name = "binary operands", !.fn = fn, !.arg = lhs, !.other = rhs]
Operands(cls, arg) == [NoOp EXCEPT !.name = "operands", !.cls = cls, !.arg = arg]
\* The positional arguments of a call.
ArgList(args) == [kind |-> "args", e |-> args]

\* ------------------------------------------------------------------ inputs
LeafTypes == {c_int8, c_uint8}

RECURSIVE TreesOfSize(_)
RECURSIVE ForestsOfSize(_)

\* Every CTypeTreeType with exactly n nodes: a scalar descriptor, or a tuple
\* of trees (the empty tuple included).
TreesOfSize(n) ==
  IF n = 1 THEN LeafTypes \cup {Tup(<<>>)}
  ELSE {Tup(f) : f \in ForestsOfSize(n - 1)}

ForestsOfSize(n) ==
  IF n = 0 THEN {<<>>}
  ELSE UNION {{<<t>> \o f : t \in TreesOfSize(k), f \in ForestsOfSize(n - k)} : k \in 1..n}

TypeTrees(n) == UNION {TreesOfSize(k) : k \in 1..n}

BigTrees == TypeTrees(MaxNodes)
MixTrees == TypeTrees(MaxMixNodes)

\* A native value representable in scalar type t, different at every leaf
\* position i so that a value that moved is seen.
SampleValue(t, i) == IF t = c_int8 THEN 0 - i ELSE 200 + i

RECURSIVE ValueTreeOf(_, _)
RECURSIVE ValueForestOf(_, _, _, _)

\* The CTypeTree of the shape of tree t, its leaves numbered from i on.
\* Returns [v |-> the tree, i |-> the next free number].
ValueForestOf(ts, k, i, acc) ==
  IF k > Len(ts) THEN [v |-> acc, i |-> i]
  ELSE LET sub == ValueTreeOf(ts[k], i) IN
       ValueForestOf(ts, k + 1, sub.i, Append(acc, sub.v))

ValueTreeOf(t, i) ==
  IF IsTuple(t)
  THEN LET sub == ValueForestOf(t.fields, 1, i, <<>>) IN [v |-> VTup(sub.v), i |-> sub.i]
  ELSE [v |-> Val(SampleValue(t, i)), i |-> i + 1]

Sample(t) == ValueTreeOf(t, 1).v

\* ---------------------------------------------------------------- state
VARIABLES
  ct,      \* the CTypeTreeType handed to the converters
  c,       \* the CTypeTree handed to CTypeTree_to_Structure
  ctb,     \* the CTypeTreeType handed to CTypeTree_from_Structure
  cache,   \* the functools.cache of CTypeTreeType_to_Structure
  ty,      \* outcome of the last CTypeTreeType_to_Structure call
  s,       \* outcome of the last CTypeTree_to_Structure call
  back,    \* outcome of the last CTypeTree_from_Structure call
  pc,      \* which call was made last
  log,     \* history: argument and result of every CTypeTreeType_to_Structure
           \* call that returned, oldest first
  f,       \* the function a CompiledFunction wraps (its signature)
  tgt,     \* the CTarget: whether it exists, whether it has its _so
  so_f,    \* the functools.cache of load_function for f
  call,    \* the last call_function
  op       \* the last operation on the DSL classes, or its operands

marshalVars == <<ct, c, ctb, ty, s, back, pc, log>>
targetVars == <<f, tgt, so_f, call>>
typeVars == <<op>>
vars == <<ct, c, ctb, cache, ty, s, back, pc, log, f, tgt, so_f, call, op>>

NoFunction == [params |-> <<>>, ret |-> Annotation("empty", <<>>)]
NoTarget == [phase |-> "none", has_so |-> FALSE]
NoTargetState ==
  f = NoFunction /\ tgt = NoTarget /\ so_f = NotLoaded /\ call = NoCall /\ op = NoOp

NotCalled == [status |-> "none", err |-> "", r |-> NoVal, st |-> EmptyCache]

\* The operands: a tree with a value tree of its own shape, read back with
\* the same tree; or two unrelated small trees, one giving the shape of the
\* value tree or the tree the struct is read back with.
MarshalInputs ==
  \/ \E t \in BigTrees : ct = t /\ c = Sample(t) /\ ctb = t
  \/ \E t \in MixTrees, x \in MixTrees : ct = t /\ c = Sample(x) /\ ctb = t
  \/ \E t \in MixTrees, b \in MixTrees : ct = t /\ c = Sample(t) /\ ctb = b

MarshalInit ==
  /\ MarshalInputs
  /\ cache = EmptyCache
  /\ ty = NotCalled
  /\ s = NotCalled
  /\ back = NotCalled
  /\ pc = "start"
  /\ log = <<>>
  /\ NoTargetState

\* CTypeTreeType_to_Structure(ct)
TypeToStructure ==
  /\ pc = "start"
  /\ ty' = CTypeTreeType_to_Structure(cache, ct)
  /\ cache' = ty'.st
  /\ pc' = "typed"
  /\ UNCHANGED <<ct, c, ctb, s, back, log, targetVars, typeVars>>

\* CTypeTree_to_Structure(ct, c)
ToStructure ==
  /\ pc = "start"
  /\ s' = CTypeTree_to_Structure(cache, ct, c)
  /\ cache' = s'.st
  /\ pc' = "built"
  /\ UNCHANGED <<ct, c, ctb, ty, back, log, targetVars, typeVars>>

\* CTypeTree_from_Structure(ctb, s) on the object CTypeTree_to_Structure returned
FromStructure ==
  /\ pc = "built"
  /\ s.status = "return"
  /\ back' = CTypeTree_from_Structure(ctb, s.r)
  /\ pc' = "read"
  /\ UNCHANGED <<ct, c, ctb, cache, ty, s, log, targetVars, typeVars>>

MarshalNext == TypeToStructure \/ ToStructure \/ FromStructure

MarshalSpec == MarshalInit /\ [][MarshalNext]_vars

\* ------------------------------------------------------------ read model
\* CTypeTree_from_Structure(ct, s) statement by statement as far as its first
\* loop goes: ctb is the local ct of the loop, Len(log) is num_tuple_shell
\* (which the loop only counts up and never reads: it is kept up to
\* MaxMixNodes, more shells than any tree in hand has, and stands for every
\* greater number from there on), pc the position.
ReadInit ==
  /\ \E t \in MixTrees, b \in MixTrees :
       /\ ct = b
       /\ s = CTypeTree_to_Structure(EmptyCache, t, Sample(t))
  /\ s.status = "return"
  /\ c = NoVal /\ ctb = NoType
  /\ cache = EmptyCache
  /\ ty = NotCalled
  /\ back = NotCalled
  /\ pc = "enter"
  /\ log = <<>>
  /\ NoTargetState

\* The two isinstance checks and num_tuple_shell = 0
ReadEnter ==
  /\ pc = "enter"
  /\ IF ~IsInstance(s.r)
     THEN back' = Raise(EmptyCache, "s must be a Structure") /\ pc' = "done" /\ ctb' = ctb
     ELSE IF ~IsTuple(ct)
     THEN back' = Raise(EmptyCache, "ct must be a CTypeTreeType") /\ pc' = "done" /\ ctb' = ctb
     ELSE back' = back /\ pc' = "test" /\ ctb' = ct
  /\ UNCHANGED <<ct, c, cache, ty, s, log, targetVars, typeVars>>

\* while len(ct) == 1: the condition holds and the body is entered
ReadTest ==
  /\ pc = "test"
  /\ Len(ctb.fields) = 1
  /\ pc' = "body"
  /\ UNCHANGED <<ct, c, ctb, cache, ty, s, back, log, targetVars, typeVars>>

\* The body: num_tuple_shell += 1; if isinstance(ct[0], tuple): ct = ct[0];
\* and back to the condition.
ReadShell ==
  /\ pc = "body"
  /\ log' = IF Len(log) < MaxMixNodes THEN Append(log, ctb) ELSE log
  /\ ctb' = IF IsTuple(ctb.fields[1]) THEN ctb.fields[1] ELSE ctb
  /\ pc' = "test"
  /\ UNCHANGED <<ct, c, cache, ty, s, back, targetVars, typeVars>>

\* The loop left: the length check, the loop over the fields and the shells
\* put back.
ReadFields ==
  /\ pc = "test"
  /\ Len(ctb.fields) # 1
  /\ back' = IF Len(ctb.fields) # Len(s.r.ty.fields)
             THEN Raise(EmptyCache, "length mismatch when converting back from Structure")
             ELSE The({IF body.status # "return" THEN body
                       ELSE Return(EmptyCache, Shells(VTup(body.r), Len(log)))
                       : body \in {from_fields(ctb, s.r, 1, <<>>)}})
  /\ pc' = "done"
  /\ UNCHANGED <<ct, c, ctb, cache, ty, s, log, targetVars, typeVars>>

ReadNext == ReadEnter \/ ReadTest \/ ReadShell \/ ReadFields

ReadSpec == ReadInit /\ [][ReadNext]_vars

\* The interpreter keeps running the call: a statement that can run does.
ReadLive == ReadSpec /\ WF_vars(ReadNext)

\* ------------------------------------------------------------ memo model
\* The trees handed to CTypeTreeType_to_Structure in the memo model.
MemoTrees == TreesOfSize(MaxMixNodes - 1)

MemoInit ==
  /\ ct = NoType
  /\ c = NoVal
  /\ ctb = NoType
  /\ cache = EmptyCache
  /\ ty = NotCalled
  /\ s = NotCalled
  /\ back = NotCalled
  /\ pc = "start"
  /\ log = <<>>
  /\ NoTargetState

\* One more call CTypeTreeType_to_Structure(t), under the cache the earlier
\* calls left.
MemoCall ==
  /\ Len(log) < MaxCalls
  /\ \E t \in MemoTrees :
       /\ ct' = t
       /\ ty' = CTypeTreeType_to_Structure(cache, t)
       /\ cache' = ty'.st
       /\ log' = IF ty'.status = "return"
                 THEN Append(log, [arg |-> t, r |-> ty'.r])
                 ELSE log
  /\ pc' = "typed"
  /\ UNCHANGED <<c, ctb, s, back, targetVars, typeVars>>

MemoNext == MemoCall

MemoSpec == MemoInit /\ [][MemoNext]_vars

\* ---------------------------------------------------------- target model
\* The positional arguments of a call: m of them, the i-th a host value of
\* the i-th declared type, at most one of them (the k-th) replaced by a value
\* the type does not take.
BaseArg(g, i) ==
  IF i <= Len(g.params) /\ g.params[i] = "Pair"
  THEN VTup(<<Val(0 - i), Val(10 + i)>>)
  ELSE Val(10 + i)

Deviants == {Val(0 - 3), Val(300), VTup(<<Val(1)>>)}

ArgVectors(g) ==
  UNION {{[i \in 1..m |-> BaseArg(g, i)]}
         \cup {[i \in 1..m |-> IF i = k THEN d ELSE BaseArg(g, i)] : k \in 1..m, d \in Deviants}
         : m \in 0..MaxParams}

TargetInit ==
  /\ f \in Functions
  /\ tgt = NoTarget
  /\ so_f = NotLoaded
  /\ call = NoCall
  /\ op = NoOp
  /\ cache = EmptyCache
  /\ ct = NoType /\ c = NoVal /\ ctb = NoType
  /\ ty = NotCalled /\ s = NotCalled /\ back = NotCalled
  /\ pc = "start" /\ log = <<>>

\* CompilationTarget.__init__: with settings.auto_build it runs build(src);
\* when build raises no target comes to exist.
Construct ==
  /\ tgt.phase = "none"
  /\ \E auto_build \in BOOLEAN, ok \in BOOLEAN :
       tgt' = IF ~auto_build
              THEN [phase |-> "live", has_so |-> FALSE]
              ELSE IF ok
              THEN [phase |-> "live", has_so |-> TRUE]
              ELSE [phase |-> "failed", has_so |-> FALSE]
  /\ UNCHANGED <<f, so_f, call, cache, marshalVars, typeVars>>

\* CTarget.build: self._so is assigned when the pipeline ran; emit_mlir may
\* raise before that.
Build ==
  /\ tgt.phase = "live"
  /\ \E ok \in BOOLEAN :
       tgt' = IF ok THEN [tgt EXCEPT !.has_so = TRUE] ELSE tgt
  /\ UNCHANGED <<f, so_f, call, cache, marshalVars, typeVars>>

\* CTarget.call_function(f, *args).  loadable and seed are the environment's
\* part: whether the library loads, and what the callee computes; they are
\* drawn only where the call gets that far.
Call ==
  /\ tgt.phase = "live"
  /\ \E args \in ArgVectors(f),
        loadable \in IF tgt.has_so /\ ~so_f.loaded THEN BOOLEAN ELSE {TRUE} :
       \E r0 \in {call_function(tgt, cache, so_f, f, args, loadable, 0)} :
         \E seed \in IF r0.call.invoked THEN 0..1 ELSE {0} :
           \E r \in {IF seed = 0 THEN r0
                     ELSE call_function(tgt, cache, so_f, f, args, loadable, seed)} :
             /\ call' = r.call
             /\ cache' = r.st
             /\ so_f' = r.so_f
  /\ UNCHANGED <<f, tgt, marshalVars, typeVars>>

TargetNext == Construct \/ Build \/ Call

TargetSpec == TargetInit /\ [][TargetNext]_vars

\* ------------------------------------------------ PolyCTarget, its steps
\* PolyCTarget(src, settings): CompilationTarget.__init__ runs self.build(src)
\* under settings.auto_build, and no target comes to exist when that raises.
PolyConstruct ==
  /\ tgt.phase = "none"
  /\ \E auto_build \in BOOLEAN :
       \E b \in {Poly_build([phase |-> "live", has_so |-> FALSE])} :
         /\ tgt' = IF ~auto_build THEN [phase |-> "live", has_so |-> FALSE]
                   ELSE IF b.err # "" THEN [phase |-> "failed", has_so |-> FALSE]
                   ELSE b.tgt
         /\ log' = IF auto_build /\ b.err # "" THEN Append(log, b.err) ELSE log
  /\ UNCHANGED <<f, so_f, call, cache, ct, c, ctb, ty, s, back, pc, typeVars>>

\* target.build(src); log keeps what the builds raised.
PolyBuild ==
  /\ tgt.phase = "live"
  /\ Len(log) < MaxCalls
  /\ \E b \in {Poly_build(tgt)} :
       /\ tgt' = b.tgt
       /\ log' = IF b.err # "" THEN Append(log, b.err) ELSE log
  /\ UNCHANGED <<f, so_f, call, cache, ct, c, ctb, ty, s, back, pc, typeVars>>

\* target.call_function(f, *args)
PolyCall ==
  /\ tgt.phase = "live"
  /\ \E args \in ArgVectors(f),
        loadable \in IF tgt.has_so /\ ~so_f.loaded THEN BOOLEAN ELSE {TRUE} :
       \E r0 \in {Poly_call_function(tgt, cache, so_f, f, args, loadable, 0)} :
         \E seed \in IF r0.call.invoked THEN 0..1 ELSE {0} :
           \E r \in {IF seed = 0 THEN r0
                     ELSE Poly_call_function(tgt, cache, so_f, f, args, loadable, seed)} :
             /\ call' = r.call
             /\ cache' = r.st
             /\ so_f' = r.so_f
  /\ UNCHANGED <<f, tgt, marshalVars, typeVars>>

PolyNext == PolyConstruct \/ PolyBuild \/ PolyCall

PolySpec == TargetInit /\ [][PolyNext]_vars

\* The same target with functions of no parameters that return a tuple of
\* two or more scalar classes.
ScalarTypes == {"UInt8", "UInt32", "F64"}

RECURSIVE ScalarSeqs(_)
ScalarSeqs(n) ==
  IF n = 0 THEN {<<>>}
  ELSE {Append(q, t) : q \in ScalarSeqs(n - 1), t \in ScalarTypes}

ReturnFunctions ==
  {[params |-> <<>>, ret |-> Annotation("tuple", ts)]
   : ts \in UNION {ScalarSeqs(k) : k \in 2..MaxFields}}

ReturnInit ==
  /\ f \in ReturnFunctions
  /\ tgt = NoTarget
  /\ so_f = NotLoaded
  /\ call = NoCall
  /\ op = NoOp
  /\ cache = EmptyCache
  /\ ct = NoType /\ c = NoVal /\ ctb = NoType
  /\ ty = NotCalled /\ s = NotCalled /\ back = NotCalled
  /\ pc = "start" /\ log = <<>>

ReturnSpec == ReturnInit /\ [][TargetNext]_vars

\* ------------------------------------------------------------ type model
\* Python ints from below the smallest to above the largest bit pattern.
Literals == (0 - Pow2(MaxWidth) - 1)..(Pow2(MaxWidth) + 1)

\* Every instance of every Int class: any bit pattern of the width.
IntInstances ==
  UNION {{Inst(cls, MValue(IntegerType(cls.width), b)) : b \in 0..(Pow2(cls.width) - 1)}
         : cls \in IntClasses}

\* The classes whose metaclass is Supportable.
CastableClasses ==
  {IntClass(w, sg) : w \in {4, MaxWidth}, sg \in Signs}
  \cup {BoolClass, IndexClass} \cup FloatClasses

\* One object of every kind a class may be called with.
SampleObjects ==
  {Lit(1), BoolLit(TRUE), Other,
   MValue(IntegerType(4), 5),
   Inst(IntClass(4, UNSIGNED), MValue(IntegerType(4), 5)),
   Inst(IntClass(4, SIGNED), MValue(IntegerType(4), 9)),
   Inst(BoolClass, MValue(IntegerType(1), 1)),
   Inst(IndexClass, MValue(IndexType, 3)),
   Inst(FloatClass(32), MValue(FloatType(32), 2)),
   Inst(NumberClass, Lit(2)),
   Inst(NumberClass, Lit(0 - 2))}

ArgLists ==
  {<<>>} \cup {<<x>> : x \in SampleObjects}
  \cup {<<x, y>> : x \in SampleObjects, y \in SampleObjects}

\* The classes a literal is bound to: every width up to MaxWidth, and the
\* 16-bit classes UInt16 and SInt16.
BindingClasses == IntClasses \cup {IntClass(2 * MaxWidth, sg) : sg \in Signs}

\* The operands of the operations, by the kind of rep.
LiteralInputs == {Operands(cls, Lit(v)) : cls \in IntClasses, v \in Literals}
BindingInputs ==
  {Operands(cls, Inst(NumberClass, Lit(v))) : cls \in BindingClasses, v \in Literals}
InstanceInputs == {Operands(cls, x) : cls \in IntClasses, x \in IntInstances}
CallInputs == {Operands(cls, ArgList(args)) : cls \in CastableClasses, args \in ArgLists}

\* Native values of every shape: signless, signed and unsigned integer
\* types of every width, the index type and a float type; bare or as the
\* result of an operation.  And host objects that are no integers.
NativeTypes ==
  {[kind |-> "integer", width |-> w, signless |-> sl] : w \in 1..MaxWidth, sl \in BOOLEAN}
  \cup {IndexType, FloatType(32)}
NativeReps ==
  {MValue(t, b) : t \in NativeTypes, b \in {0, 1}}
  \cup {OpView(MValue(t, b)) : t \in NativeTypes, b \in {0, 1}}
HostReps ==
  {Other, Inf, NaN}
  \cup {HostFloat(n, frac) : n \in {0 - 1, 0, 2}, frac \in {"zero", "half"}}
NativeInputs ==
  {Operands(cls, x) : cls \in IntClasses, x \in NativeReps \cup HostReps}

\* The base classes called with one argument of every kind.
BaseInputs ==
  {Operands(cls, ArgList(<<x>>))
     : cls \in {BaseInt, BaseFloat},
       x \in SampleObjects \cup HostReps \cup {OpView(MValue(IntegerType(4), 5))}}

\* The operands of the binary operators: Int classes up to MaxOpWidth with
\* every bit pattern, and the literals around their ranges.
OpClasses == {IntClass(w, sg) : w \in 1..MaxOpWidth, sg \in Signs}
OpInstances ==
  UNION {{Inst(cls, MValue(IntegerType(cls.width), b)) : b \in 0..(Pow2(cls.width) - 1)}
         : cls \in OpClasses}
OpLiterals == (0 - Pow2(MaxOpWidth) - 1)..(Pow2(MaxOpWidth) + 1)
OpNames ==
  {"op_add", "op_sub", "op_mul", "op_floordiv", "op_and", "op_xor",
   "op_lt", "op_le", "op_eq", "op_ne", "op_ge", "op_gt"}

NumberLeftInputs ==
  {BinOperands(fn, NumberOf(Lit(a)), x) : fn \in OpNames, a \in OpLiterals, x \in OpInstances}
NumberRightInputs ==
  {BinOperands(fn, x, NumberOf(Lit(a))) : fn \in OpNames, a \in OpLiterals, x \in OpInstances}
FoldInputs ==
  {BinOperands(fn, NumberOf(Lit(a)), NumberOf(Lit(b)))
     : fn \in OpNames, a \in OpLiterals, b \in OpLiterals}

\* The operands of the operators of Index: an Index, and an Index, a Number
\* or a host int on the other side.
IndexInstances == {Inst(IndexClass, MValue(IndexType, b)) : b \in 0..MaxOpWidth}
IndexInputs ==
  {BinOperands(fn, x, y)
     : fn \in IndexMethods, x \in IndexInstances,
       y \in IndexInstances \cup {NumberOf(Lit(a)) : a \in {0 - 1, 0, 2}} \cup {Lit(2), Other}}

\* The operands of the unary operators: both Bools, and Numbers of host ints
\* and floats.
UnaryOperands(fn, x) == [NoOp EXCEPT !.name = "unary operands", !.fn = fn, !.arg = x]
BoolInputs ==
  {UnaryOperands("on_Not", Inst(BoolClass, MValue(IntegerType(1), b))) : b \in 0..1}
NumberUnaryInputs ==
  {UnaryOperands(fn, NumberOf(x))
     : fn \in un_number_op,
       x \in {Lit(a) : a \in (0 - MaxOpWidth)..MaxOpWidth}
              \cup {HostFloat(2, "half"), HostFloat(0 - 2, "zero")}}

TypeInit ==
  /\ \/ op \in LiteralInputs
     \/ op \in BoolInputs
     \/ op \in NumberUnaryInputs
     \/ op \in IndexInputs
     \/ op \in BindingInputs
     \/ op \in InstanceInputs
     \/ op \in CallInputs
     \/ op \in NativeInputs
     \/ op \in BaseInputs
     \/ op \in NumberLeftInputs
     \/ op \in NumberRightInputs
     \/ op \in FoldInputs
  /\ f = NoFunction /\ tgt = NoTarget /\ so_f = NotLoaded /\ call = NoCall
  /\ cache = EmptyCache
  /\ ct = NoType /\ c = NoVal /\ ctb = NoType
  /\ ty = NotCalled /\ s = NotCalled /\ back = NotCalled
  /\ pc = "start" /\ log = <<>>

\* cls(rep) for an Int subclass and a rep that is no supporter: Int.__init__
IntInit ==
  /\ op.name = "operands"
  /\ op.cls.family = "Int"
  /\ op.arg.kind \notin {"dsl", "args"}
  /\ op' = [op EXCEPT !.name = "Int.__init__", !.out = Int_init(op.cls, op.arg)]
  /\ UNCHANGED <<cache, marshalVars, targetVars>>

\* rep.Int(target_type) for an instance of an Int subclass
IntCast ==
  /\ op.name = "operands"
  /\ op.cls.family = "Int"
  /\ op.arg.kind = "dsl"
  /\ op.arg.cls.family = "Int"
  /\ op' = [op EXCEPT !.name = "Int.Int", !.out = Int_Int(op.arg, op.cls)]
  /\ UNCHANGED <<cache, marshalVars, targetVars>>

\* cls(*args) for a class whose metaclass is Supportable
ClassCall ==
  /\ op.name = "operands"
  /\ op.arg.kind = "args"
  /\ op' = [op EXCEPT !.name = "cls(*args)",
                       !.path = Dispatch(op.cls, op.arg.e),
                       !.out = Supportable_call(op.cls, op.arg.e)]
  /\ UNCHANGED <<cache, marshalVars, targetVars>>

\* cls(n) for a Number n: a literal bound to a concrete Int class
NumberCast ==
  /\ op.name = "operands"
  /\ op.arg.kind = "dsl"
  /\ op.arg.cls.family = "Number"
  /\ op' = [op EXCEPT !.name = "cls(Number)",
                       !.path = Dispatch(op.cls, <<op.arg>>),
                       !.out = Supportable_call(op.cls, <<op.arg>>)]
  /\ UNCHANGED <<cache, marshalVars, targetVars>>

\* The bit patterns an undefined result may be: all those of the width of
\* the Int operand when the outcome depends on it, else just one.
Undefined(x, F(_)) ==
  IF F(0) = F(1) THEN {0} ELSE 0..(Pow2(x.cls.width) - 1)

\* n.fn(rhs) for a Number n: generic_bin_op of the entry installed under fn
NumberOp ==
  /\ op.name = "binary operands"
  /\ op.arg.cls.family = "Number"
  /\ IF Installed(op.fn) = {}
     THEN op' = [op EXCEPT !.name = "Number.fn", !.path = "",
                           !.out = Raise(EmptyCache, "AttributeError")]
     ELSE \E tup \in Installed(op.fn) :
            LET F(u) == generic_bin_op(tup, op.arg, op.other, u)
            IN  \E u \in IF op.other.cls.family = "Number" THEN {0}
                          ELSE Undefined(op.other, F) :
                  op' = [op EXCEPT !.name = "Number.fn",
                                   !.path = tup.internal_op,
                                   !.out = F(u)]
  /\ UNCHANGED <<cache, marshalVars, targetVars>>

\* x.fn(rhs) for an instance x of an Int class
IntOp ==
  /\ op.name = "binary operands"
  /\ op.arg.cls.family = "Int"
  /\ LET F(u) == Int_method(op.fn, op.arg, op.other, u)
     IN  \E u \in Undefined(op.arg, F) :
           op' = [op EXCEPT !.name = "Int.fn", !.out = F(u)]
  /\ UNCHANGED <<cache, marshalVars, targetVars>>

\* x.fn(rhs) for an instance x of Index
IndexOp ==
  /\ op.name = "binary operands"
  /\ op.arg.cls.family = "Index"
  /\ op' = [op EXCEPT !.name = "Index.fn",
                       !.out = Index_method(op.fn, op.arg, op.other)]
  /\ UNCHANGED <<cache, marshalVars, targetVars>>

\* x.on_Not() for a Bool x
BoolNot ==
  /\ op.name = "unary operands"
  /\ op.arg.cls.family = "Bool"
  /\ op' = [op EXCEPT !.name = "Bool.on_Not", !.out = on_Not(op.arg)]
  /\ UNCHANGED <<cache, marshalVars, targetVars>>

\* x.fn() for a Number x and a name fn of un_number_op
NumberUnary ==
  /\ op.name = "unary operands"
  /\ op.arg.cls.family = "Number"
  /\ op' = [op EXCEPT !.name = "Number.unary", !.out = generic_unary_op(op.fn, op.arg)]
  /\ UNCHANGED <<cache, marshalVars, targetVars>>

TypeNext ==
  \/ IntInit \/ IntCast \/ ClassCall \/ NumberCast \/ NumberOp \/ IntOp
  \/ IndexOp \/ BoolNot \/ NumberUnary

TypeSpec == TypeInit /\ [][TypeNext]_vars

\* --------------------------------------------------- native-mapping model
\* The classmethods of the two targets applied to a class and, for the value
\* conversions, to a host value or to a native value in its tuple.
Targets == {"CTarget", "PolyCTarget"}
AbiTypes == {"UInt8", "UInt32", "SInt8", "F64", "Index", "Pair"}
DSLType(typ) == [family |-> "SupportsCType", name |-> typ]

\* Every int from below the least 8-bit number to above the greatest, a
\* float, a tuple and an object that is no number.
HostValues ==
  {Val(n) : n \in (0 - Pow2(8) - 1)..(Pow2(8) + 1)}
  \cup {Dbl(7), VTup(<<Val(1), Val(2)>>), Other}
NativeTuples == {VTup(<<Val(n)>>) : n \in {0, 7, 255}} \cup {VTup(<<Dbl(7)>>), VTup(<<Dbl(0 - 7)>>)}

AbiInputs ==
  {[NoOp EXCEPT !.name = "abi operands", !.path = t, !.cls = DSLType(typ), !.fn = m, !.arg = a]
   : t \in Targets, typ \in AbiTypes,
     m \in {"type_to_CType", "val_to_CType", "val_from_CType"},
     a \in HostValues \cup NativeTuples \cup {NoVal}}

AbiInit ==
  /\ op \in {x \in AbiInputs :
               CASE x.fn = "type_to_CType" -> x.arg = NoVal
                 [] x.fn = "val_to_CType" -> x.arg \in HostValues
                 [] OTHER -> x.arg \in NativeTuples}
  /\ f = NoFunction /\ tgt = NoTarget /\ so_f = NotLoaded /\ call = NoCall
  /\ cache = EmptyCache
  /\ ct = NoType /\ c = NoVal /\ ctb = NoType
  /\ ty = NotCalled /\ s = NotCalled /\ back = NotCalled
  /\ pc = "start" /\ log = <<>>

\* target.type_to_CType(typ)
TypeToCType ==
  /\ op.name = "abi operands"
  /\ op.fn = "type_to_CType"
  /\ op' = [op EXCEPT !.name = "abi",
                       !.out = Return(EmptyCache,
                                      IF op.path = "PolyCTarget"
                                      THEN Poly_type_to_CType(op.cls.name)
                                      ELSE type_to_CType(op.cls.name))]
  /\ UNCHANGED <<cache, marshalVars, targetVars>>

\* target.val_to_CType(typ, val)
ValToCType ==
  /\ op.name = "abi operands"
  /\ op.fn = "val_to_CType"
  /\ op' = [op EXCEPT !.name = "abi",
                       !.out = IF op.path = "PolyCTarget"
                               THEN Poly_val_to_CType(op.cls.name, op.arg)
                               ELSE to_CType(op.cls.name, op.arg)]
  /\ UNCHANGED <<cache, marshalVars, targetVars>>

\* target.val_from_CType(typ, val)
ValFromCType ==
  /\ op.name = "abi operands"
  /\ op.fn = "val_from_CType"
  /\ op' = [op EXCEPT !.name = "abi",
                       !.out = IF op.path = "PolyCTarget"
                               THEN Poly_val_from_CType(op.cls.name, op.arg)
                               ELSE Return(EmptyCache, from_CType(op.cls.name, op.arg))]
  /\ UNCHANGED <<cache, marshalVars, targetVars>>

AbiNext == TypeToCType \/ ValToCType \/ ValFromCType

AbiSpec == AbiInit /\ [][AbiNext]_vars

\* ------------------------------------------------------- claim vocabulary
RECURSIVE SameShape(_, _)
\* A CTypeTreeType t and a CTypeTree v have the same nesting and the same
\* length at every level.
SameShape(t, v) ==
  IF IsTuple(t) /\ IsVTuple(v)
  THEN /\ Len(t.fields) = Len(v.e)
       /\ \A i \in 1..Len(t.fields) : SameShape(t.fields[i], v.e[i])
  ELSE ~IsTuple(t) /\ ~IsVTuple(v)

\* The native values a scalar descriptor can hold.
Representable(t, n) ==
  CASE t.name = "c_int8" -> n \in -128..127
    [] t.name = "c_uint8" -> n \in 0..255
    [] t.name = "c_bool" -> n \in 0..1
    [] OTHER -> TRUE

RECURSIVE Matches(_, _)
\* v is a ValueTree for t: the same shape, every leaf a value of its type.
Matches(t, v) ==
  IF IsTuple(t) /\ IsVTuple(v)
  THEN /\ Len(t.fields) = Len(v.e)
       /\ \A i \in 1..Len(t.fields) : Matches(t.fields[i], v.e[i])
  ELSE ~IsTuple(t) /\ ~IsVTuple(v) /\ Representable(t, v.v)

RECURSIVE Core(_)
\* What is left of a type tree once its single-element shells are removed.
Core(t) == IF IsTuple(t) /\ Len(t.fields) = 1 THEN Core(t.fields[1]) ELSE t

RECURSIVE VCore(_)
VCore(v) == IF IsVTuple(v) /\ Len(v.e) = 1 THEN VCore(v.e[1]) ELSE v

RECURSIVE ShellDepth(_)
ShellDepth(t) == IF IsTuple(t) /\ Len(t.fields) = 1 THEN 1 + ShellDepth(t.fields[1]) ELSE 0

IsScalar(t) == t.kind = "scalar"

\* C1 (as claimed): for every tuple TypeTree T and ValueTree V of the same
\* shape (leaves representable in their types), CTypeTree_from_Structure(T, CTypeTree_to_Structure(T, V)) returns V.
C1_RoundTrip ==
  (pc = "read" /\ ctb = ct /\ IsTuple(ct) /\ Matches(ct, c))
    => (back.status = "return" /\ back.r = c)

\* C2: a length-1 node never becomes a struct: a shell chain around scalar x
\* converts to x and, with the same chain around v, to the raw value v; as a
\* child of a composite node it contributes the field (x, v) that x would.
C2_Collapsing ==
  /\ (pc = "typed" /\ IsTuple(ct) /\ ShellDepth(ct) > 0 /\ IsScalar(Core(ct)))
       => (ty.status = "return" /\ ty.r = Core(ct))
  /\ (pc = "typed" /\ IsTuple(ct) /\ Len(ct.fields) # 1)
       => /\ ty.status = "return"
          /\ IsStructType(ty.r)
          /\ Len(ty.r.fields) = Len(ct.fields)
          /\ \A i \in 1..Len(ct.fields) :
               IsScalar(Core(ct.fields[i])) => ty.r.fields[i] = Core(ct.fields[i])
  /\ (pc = "built" /\ IsTuple(ct) /\ Matches(ct, c) /\ ShellDepth(ct) > 0
        /\ IsScalar(Core(ct)))
       => (s.status = "return" /\ s.r = VCore(c))
  /\ (pc = "built" /\ IsTuple(ct) /\ Matches(ct, c) /\ Len(ct.fields) # 1)
       => /\ s.status = "return"
          /\ IsInstance(s.r)
          /\ \A i \in 1..Len(ct.fields) :
               IsScalar(Core(ct.fields[i])) =>
                 /\ s.r.ty.fields[i] = Core(ct.fields[i])
                 /\ s.r.e[i] = VCore(c.e[i])

\* A composite tree with the child (((x,),),) has been converted.
C2_Witness ==
  /\ pc = "built"
  /\ s.status = "return"
  /\ IsTuple(ct) /\ Len(ct.fields) = 2
  /\ ShellDepth(ct.fields[2]) = 3
  /\ IsScalar(Core(ct.fields[2]))

\* C3: struct-type synthesis is memoized purely: calls with structurally
\* equal TypeTrees return the identical object, and the object remembered
\* for a TypeTree is never replaced by a later call.
C3_MemoPure ==
  /\ \A i, j \in 1..Len(log) : log[i].arg = log[j].arg => log[i].r = log[j].r
  /\ \A i \in 1..Len(log) :
       /\ log[i].arg \in DOMAIN cache.memo
       /\ cache.memo[log[i].arg] = log[i].r

\* The same tree was converted twice and the result is a struct type.
C3_Witness ==
  /\ Len(log) = 2
  /\ log[1].arg = log[2].arg
  /\ IsStructType(log[1].r)

\* C4: CTypeTree_to_Structure raises, and returns no struct, whenever the two
\* trees disagree in depth or in length at any level.
C4_MismatchRaises ==
  (pc = "built" /\ ~SameShape(ct, c))
    => /\ s.status = "raise"
       /\ s.err \in {"CTypeTree and CTypeTreeType mismatch in terms of depth",
                     "CTypeTree and CTypeTreeType mismatch in terms of length"}

\* The two trees agree at the top and disagree below it, and the call raised.
C4_Witness ==
  /\ pc = "built"
  /\ IsTuple(ct) /\ IsVTuple(c) /\ Len(ct.fields) = Len(c.e)
  /\ ~SameShape(ct, c)
  /\ s.status = "raise"

\* C5 (as claimed): CTypeTree_from_Structure(T, s) raises a length-mismatch
\* error when s has another number of fields than T has elements once its
\* shells are stripped, and a type-mismatch error when a scalar field's
\* declared type is not the descriptor expected there; no ValueTree returns.
StrippedCt == IF IsTuple(Core(ctb)) THEN Core(ctb) ELSE Tup(<<Core(ctb)>>)

FieldCountDiffers == Len(s.r.ty.fields) # Len(StrippedCt.fields)

ScalarFieldDiffers ==
  \E i \in 1..ZipLen(StrippedCt.fields, s.r.ty.fields) :
    /\ ~IsStructType(s.r.ty.fields[i])
    /\ Core(StrippedCt.fields[i]) # s.r.ty.fields[i]

C5_FromStructureRaises ==
  (pc = "read" /\ IsTuple(ctb) /\ IsInstance(s.r))
    => /\ FieldCountDiffers =>
            (back.status = "raise"
             /\ back.err = "length mismatch when converting back from Structure")
       /\ (~FieldCountDiffers /\ ScalarFieldDiffers) => back.status = "raise"

\* The round trip does hold whenever CTypeTree_to_Structure produced a
\* Structure, i.e. for every tree that does not collapse to a scalar.
RoundTripOfStructures ==
  (pc = "read" /\ ctb = ct /\ IsTuple(ct) /\ Matches(ct, c) /\ IsInstance(s.r))
    => (back.status = "return" /\ back.r = c)

\* The two errors are raised in every call that comes back at all.
FromStructureRaisesUnlessHang ==
  (pc = "read" /\ IsTuple(ctb) /\ IsInstance(s.r) /\ back.status # "hang")
    => /\ FieldCountDiffers =>
            (back.status = "raise"
             /\ back.err = "length mismatch when converting back from Structure")
       /\ (~FieldCountDiffers /\ ScalarFieldDiffers) => back.status = "raise"

\* ---------------------------------------------------- claims on the target
\* The number of leaves of the descriptor of a class.
LeafCountOf(typ) == IF typ = "Pair" THEN 2 ELSE 1

RECURSIVE SumLeaves(_, _)
SumLeaves(ts, i) == IF i > Len(ts) THEN 0 ELSE LeafCountOf(ts[i]) + SumLeaves(ts, i + 1)

\* The flattened length of the return TypeTree of the function in hand.
ReturnLeaves == SumLeaves(f.ret.types, 1)

RECURSIVE ValueLeaves(_)
RECURSIVE SeqLeaves(_, _)
\* The numbers at the leaves of a value tree or of a struct, left to right.
ValueLeaves(v) == IF v.kind = "val" THEN <<v.v>> ELSE SeqLeaves(v.e, 1)
SeqLeaves(vs, i) == IF i > Len(vs) THEN <<>> ELSE ValueLeaves(vs[i]) \o SeqLeaves(vs, i + 1)

\* C6: the output-pointer convention is used exactly when the return TypeTree
\* flattens to more than one leaf: the native function is then declared void
\* with a pointer to the return struct first, the call passes a zeroed struct
\* first and returns what is read back from it; with one leaf there is no
\* extra argument and the native return value is the result.
C6_CompositeReturn ==
  call.invoked =>
    /\ (so_f.restype = NoType) <=> (ReturnLeaves > 1)
    /\ (Len(call.native_args) = Len(f.params) + 1) <=> (ReturnLeaves > 1)
    /\ ReturnLeaves > 1 =>
         /\ Len(so_f.argtypes) = Len(f.params) + 1
         /\ so_f.argtypes[1].kind = "pointer"
         /\ IsStructType(so_f.argtypes[1].fields[1])
         /\ IsInstance(call.native_args[1])
         /\ call.native_args[1].ty = so_f.argtypes[1].fields[1]
         /\ ValueLeaves(call.native_args[1]) = [i \in 1..ReturnLeaves |-> 0]
         /\ call.ret_struct.ty = call.native_args[1].ty
         /\ call.native_ret = NoVal
         /\ call.status = "return"
         /\ ValueLeaves(call.value) = ValueLeaves(call.ret_struct)
    /\ ReturnLeaves = 1 =>
         /\ Len(so_f.argtypes) = Len(f.params)
         /\ Len(call.native_args) = Len(f.params)
         /\ IsScalar(so_f.restype)
         /\ call.status = "return"
         /\ call.value = call.native_ret

\* A function of two parameters returning three leaves has been called, and
\* the callee wrote nonzero values.
C6_Witness ==
  /\ call.invoked
  /\ Len(f.params) = 2
  /\ ReturnLeaves = 3
  /\ call.status = "return"
  /\ ValueLeaves(call.value) # <<0, 0, 0>>

\* C7 (as claimed): when the return type flattens to zero leaves the native
\* function is declared with no return type, and the call invokes it and
\* returns None.
C7_VoidReturn ==
  (call.invoked /\ ReturnLeaves = 0)
    => /\ so_f.restype = NoType
       /\ call.status = "return"
       /\ call.value = NoVal

\* What does hold of such a call: it returns None, and the declared return
\* type is a pointer to the struct of no fields.
VoidCallReturnsNone ==
  (call.invoked /\ ReturnLeaves = 0)
    => /\ call.status = "return"
       /\ call.value = NoVal
       /\ so_f.restype.kind = "pointer"
       /\ IsStructType(so_f.restype.fields[1])
       /\ so_f.restype.fields[1].fields = <<>>

\* The user argument a of declared class typ arrives as native value n under
\* the declared native type t.
PassedAs(typ, a, n, t) ==
  IF typ = "Pair"
  THEN /\ t.kind = "pointer"
       /\ t.fields[1].fields = <<c_int8, c_uint8>>
       /\ IsInstance(n)
       /\ n.ty = t.fields[1]
       /\ n.e = a.e
  ELSE /\ t = c_uint8
       /\ n = a

ReturnOffset == IF ReturnLeaves > 1 THEN 1 ELSE 0

\* C8: the i-th user argument is marshalled with the i-th declared type and
\* passed at position i, one further when the return is composite, the return
\* struct then being first; argtypes use the same positions.
C8_ArgumentOrder ==
  call.invoked =>
    /\ Len(call.args) = Len(f.params)
    /\ Len(call.native_args) = Len(f.params) + ReturnOffset
    /\ Len(so_f.argtypes) = Len(f.params) + ReturnOffset
    /\ \A i \in 1..Len(f.params) :
         PassedAs(f.params[i], call.args[i],
                  call.native_args[i + ReturnOffset], so_f.argtypes[i + ReturnOffset])
    /\ ReturnOffset = 1 =>
         /\ IsInstance(call.native_args[1])
         /\ so_f.argtypes[1] = POINTER(call.native_args[1].ty)
         /\ Len(ValueLeaves(call.native_args[1])) = ReturnLeaves

\* A call with a composite return and two parameters of different classes.
C8_Witness ==
  /\ call.invoked
  /\ ReturnOffset = 1
  /\ f.params = <<"Pair", "UInt8">>
  /\ call.native_args[3] = Val(12)

\* C9: in the signature load_function builds, what converts to a struct type
\* is declared as a pointer to it and what collapses to a scalar is declared
\* as that scalar; no struct type is declared by value.
C9_PointerWrapping ==
  so_f.loaded =>
    /\ so_f.restype.kind # "struct"
    /\ \A j \in 1..Len(so_f.argtypes) : so_f.argtypes[j].kind # "struct"
    /\ Len(so_f.argtypes) = Len(f.params) + ReturnOffset
    /\ \A i \in 1..Len(f.params) :
         IF IsScalar(Core(CType(f.params[i])))
         THEN so_f.argtypes[i + ReturnOffset] = Core(CType(f.params[i]))
         ELSE /\ so_f.argtypes[i + ReturnOffset].kind = "pointer"
              /\ IsStructType(so_f.argtypes[i + ReturnOffset].fields[1])
    /\ ReturnLeaves = 1 => so_f.restype = c_uint8
    /\ ReturnLeaves > 1 =>
         /\ so_f.argtypes[1].kind = "pointer"
         /\ IsStructType(so_f.argtypes[1].fields[1])

\* A signature with a struct parameter, a scalar parameter and a struct
\* return has been loaded.
C9_Witness ==
  /\ so_f.loaded
  /\ f.params = <<"UInt8", "Pair">>
  /\ f.ret.types = <<"Pair">>
  /\ so_f.argtypes[3].kind = "pointer"

CalledBeforeCompiled == "RuntimeError: called before it is compiled"

\* C10: a call_function on a target no build of which has completed raises
\* the usage error, loads nothing and invokes nothing; the native function is
\* invoked, and the library loaded, only where a build has completed.
C10_CallBeforeBuild ==
  /\ [](call.invoked => tgt.has_so)
  /\ [](so_f.loaded => tgt.has_so)
  /\ []((call.made /\ ~call.had_so) =>
          (call.status = "raise" /\ call.err = CalledBeforeCompiled
           /\ ~call.did_load /\ ~call.invoked))
  /\ [][(call' # call /\ ~tgt.has_so) =>
          (call'.status = "raise" /\ call'.err = CalledBeforeCompiled
           /\ ~call'.invoked /\ so_f' = so_f /\ cache' = cache)]_vars

\* The target was constructed without a build, a call was refused, and a
\* build completed afterwards.
C10_Witness ==
  /\ call.made
  /\ ~call.had_so
  /\ call.err = CalledBeforeCompiled
  /\ tgt.has_so

\* The message a count mismatch is reported with: a TypeError naming the
\* n parameters expected and the m arguments given.
NamesCounts(err, n, m) ==
  \/ n <= 1 /\ err = "TypeError: f takes " \o ToString(n) \o " positional argument but "
                       \o ToString(m) \o " were given"
  \/ n > 1 /\ err = "TypeError: f takes " \o ToString(n) \o " positional arguments but "
                      \o ToString(m) \o " were given"

C12_UnsignedRange ==
  (op.name = "Int.__init__" /\ op.cls.sign = UNSIGNED /\ op.arg.kind = "int") =>
    IF 0 <= op.arg.v /\ op.arg.v <= Pow2(op.cls.width) - 2
    THEN /\ op.out.status = "return"
         /\ op.out.r.cls = op.cls
         /\ op.out.r.value.bits = op.arg.v
    ELSE /\ op.out.status = "raise"
         /\ op.out.err = "ValueError: out of range"

\* The unsigned class of width 8 has rejected 255.
C12_Witness ==
  /\ op.name = "Int.__init__"
  /\ op.cls = IntClass(8, UNSIGNED)
  /\ op.arg = Lit(255)
  /\ op.out.status = "raise"

\* C13 (as claimed): a signed Int class of width w is constructed from the
\* integer v iff -2^(w-1) <= v <= 2^(w-1) - 1; any other v raises ValueError.
C13_SignedRange ==
  (op.name = "Int.__init__" /\ op.cls.sign = SIGNED /\ op.arg.kind = "int") =>
    IF 0 - Pow2(op.cls.width - 1) <= op.arg.v /\ op.arg.v <= Pow2(op.cls.width - 1) - 1
    THEN op.out.status = "return"
    ELSE /\ op.out.status = "raise"
         /\ op.out.err = "ValueError: out of range"

\* What the code does: the upper bound it accepts is 2^(w-1) itself.
SignedRangeInclusive ==
  (op.name = "Int.__init__" /\ op.cls.sign = SIGNED /\ op.arg.kind = "int") =>
    IF 0 - Pow2(op.cls.width - 1) <= op.arg.v /\ op.arg.v <= Pow2(op.cls.width - 1)
    THEN op.out.status = "return"
    ELSE /\ op.out.status = "raise"
         /\ op.out.err = "ValueError: out of range"

\* The number a bit pattern of width w stands for when read as signed.
SignedValue(bits, w) == IF bits >= Pow2(w - 1) THEN bits - Pow2(w) ELSE bits

\* C14: a cast from Int class S to Int class T succeeds iff T has the sign of
\* S and is at least as wide; to the same class it leaves the wrapped value
\* as it is, to a wider class it sign-extends (signed) or zero-extends
\* (unsigned); a narrower class or another sign raises TypeError.
C14_IntCast ==
  op.name = "Int.Int" =>
    IF op.cls.sign = op.arg.cls.sign /\ op.cls.width >= op.arg.cls.width
    THEN /\ op.out.status = "return"
         /\ op.out.r.cls = op.cls
         /\ op.out.r.value.type = IntegerType(op.cls.width)
         /\ op.cls = op.arg.cls => op.out.r.value = op.arg.value
         /\ op.cls.sign = SIGNED =>
              SignedValue(op.out.r.value.bits, op.cls.width)
                = SignedValue(op.arg.value.bits, op.arg.cls.width)
         /\ op.cls.sign = UNSIGNED => op.out.r.value.bits = op.arg.value.bits
    ELSE /\ op.out.status = "raise"
         /\ op.out.err \in {"TypeError: Int cannot be casted into another Int with differing signs",
                            "TypeError: Width must be extended"}

\* A negative value of the signed class of width 4 was cast to width 8.
C14_Witness ==
  /\ op.name = "Int.Int"
  /\ op.arg.cls = IntClass(4, SIGNED)
  /\ op.cls = IntClass(8, SIGNED)
  /\ op.arg.value.bits = 9
  /\ op.out.status = "return"
  /\ op.out.r.value.bits = 249

\* The capability each castable class declares for itself, and the classes
\* whose instances have it.
DeclaredCapability(cls) ==
  CASE cls.family = "Bool" -> {"Bool"}
    [] cls.family = "Index" -> {"Index", "Number"}
    [] cls.family = "Int" -> {"Int", "Bool", "Index", "Number"}
    [] cls.family = "Float" -> {"Int", "Bool", "Index", "Number", "Float"}

Satisfies(cls, x) == x.kind = "dsl" /\ x.cls.family \in DeclaredCapability(cls)

\* C15: a castable class called with exactly one positional argument that
\* satisfies the class's own supporter returns caster(cls, argument) without
\* running the class's constructor on the arguments; every other shape of
\* arguments runs the constructor.  Bool and Index dispatch on SupportsBool
\* and SupportsIndex, not on SupportsInt.
C15_CastDispatch ==
  op.name = "cls(*args)" =>
    IF Len(op.arg.e) = 1 /\ Satisfies(op.cls, op.arg.e[1])
    THEN /\ op.path = "caster"
         /\ op.out = caster(op.cls, op.arg.e[1])
    ELSE /\ op.path = "init"
         /\ op.out = NormalInit(op.cls, op.arg.e)

\* Bool was called with an instance of an Int class, which supports Int but
\* not Bool: the constructor ran, and refused it.
C15_Witness ==
  /\ op.name = "cls(*args)"
  /\ op.cls = BoolClass
  /\ op.arg.e = <<Inst(IntClass(4, UNSIGNED), MValue(IntegerType(4), 5))>>
  /\ op.path = "init"
  /\ op.out.status = "raise"

\* The range the specification gives for a width and sign.
StatedRange(cls) ==
  IF cls.sign = SIGNED
  THEN (0 - Pow2(cls.width - 1))..(Pow2(cls.width - 1) - 1)
  ELSE 0..(Pow2(cls.width) - 2)

\* C16: binding a Number literal to a concrete Int class succeeds iff the
\* wrapped value is within the range of the class, and raises ValueError
\* otherwise.
C16_NumberBinding ==
  op.name = "cls(Number)" =>
    IF op.arg.value.v \in StatedRange(op.cls)
    THEN /\ op.out.status = "return"
         /\ op.out.r.cls = op.cls
         /\ op.out.r.value = ConstantOp(IntegerType(op.cls.width), op.arg.value.v)
    ELSE op.out = Raise(EmptyCache, "ValueError: out of range")

\* The binding is the construction of the class from the wrapped value: what
\* Int.__init__ does with the host number is what the binding does.
NumberBindingIsConstruction ==
  op.name = "cls(Number)" =>
    /\ op.path = "caster"
    /\ op.out = Int_init(op.cls, op.arg.value)
    /\ op.out.status = "return" <=> in_range(op.cls, op.arg.value.v)

\* The three bindings of test_annassign and test_illegal_annassign.
AnnAssignExamples ==
  op.name = "cls(Number)" /\ op.cls.width = 2 * MaxWidth =>
    /\ op.arg.value.v = 2 /\ op.cls.sign = UNSIGNED => op.out.status = "return"
    /\ op.arg.value.v = 0 - 2 /\ op.cls.sign = SIGNED => op.out.status = "return"
    /\ op.arg.value.v = 0 - 2 /\ op.cls.sign = UNSIGNED =>
         op.out = Raise(EmptyCache, "ValueError: out of range")

\* The operators of C17: those of the reflected table that the Int classes
\* define in both directions.
ArithNames == {"op_add", "op_sub", "op_mul", "op_floordiv"}
CompareNames == {"op_lt", "op_le", "op_eq", "op_ge", "op_gt"}

\* The number an instance of an Int class stands for.
NumberOfInst(x) == IF x.cls.sign = SIGNED THEN SValue(x.value) ELSE x.value.bits

\* The number an operand stands for: the literal of a Number, else the
\* number of the instance.
Operand(x) == IF x.cls.family = "Number" THEN x.value.v ELSE NumberOfInst(x)

\* The concrete class among the two operands of a mixed operation.
Concrete(o) == IF o.arg.cls.family = "Number" THEN o.other.cls ELSE o.arg.cls
Literal(o) == IF o.arg.cls.family = "Number" THEN o.arg.value.v ELSE o.other.value.v

\* The result of l fn r over the integers, where it is defined.
Defined(fn, cls, l, r) ==
  fn = "op_floordiv" =>
    /\ r # 0
    /\ ~(cls.sign = SIGNED /\ l = 0 - Pow2(cls.width - 1) /\ r = 0 - 1)
Exact(fn, l, r) ==
  CASE fn = "op_add" -> l + r
    [] fn = "op_sub" -> l - r
    [] fn = "op_mul" -> l * r
    [] fn = "op_floordiv" -> FloorDiv(l, r)
Compared(fn, l, r) ==
  CASE fn = "op_lt" -> l < r
    [] fn = "op_le" -> l <= r
    [] fn = "op_eq" -> l = r
    [] fn = "op_ge" -> l >= r
    [] fn = "op_gt" -> l > r

Mixed(o) ==
  /\ o.name \in {"Number.fn", "Int.fn"}
  /\ (o.arg.cls.family = "Number") # (o.other.cls.family = "Number")

Folded(o) ==
  /\ o.name = "Number.fn"
  /\ o.other.cls.family = "Number"

\* The host operation each operator name stands for.
HostOp(fn, a, b) ==
  CASE fn = "op_add" -> Lit(a + b)
    [] fn = "op_sub" -> Lit(a - b)
    [] fn = "op_mul" -> Lit(a * b)
    [] fn = "op_floordiv" -> Lit(FloorDiv(a, b))
    [] fn = "op_xor" -> Lit(BitOp("xor", a, b))
    [] fn \in CompareNames -> HostBool(Compared(fn, a, b))

\* C18: a binary operator on two Numbers folds with the host operation of
\* the same name: op_add, op_sub, op_mul, op_floordiv and op_xor give the
\* Number wrapping a+b, a-b, a*b, a//b, a^b, and op_eq, op_lt, op_le, op_gt,
\* op_ge give the Bool of a == b, a < b, a <= b, a > b, a >= b.
C18_NumberFolding ==
  (/\ Folded(op)
   /\ op.fn \in ArithNames \cup {"op_xor"} \cup CompareNames
   /\ ~(op.fn = "op_floordiv" /\ op.other.value.v = 0)) =>
    /\ op.out.status = "return"
    /\ op.fn \notin CompareNames =>
         op.out.r = NumberOf(HostOp(op.fn, op.arg.value.v, op.other.value.v))
    /\ op.fn \in CompareNames =>
         op.out.r = Inst(BoolClass,
                         MValue(IntegerType(1),
                                HostOp(op.fn, op.arg.value.v, op.other.value.v).v))

\* Apart from op_eq and op_xor the operators fold as C18 says.
FoldingOfTheOthers ==
  (Folded(op) /\ op.fn \notin {"op_eq", "op_xor"}) => C18_NumberFolding

\* op_eq folds with operator.le, and op_xor with operator.xor or with
\* operator.or_, whichever entry was installed last.
FoldingOfEqAndXor ==
  Folded(op) =>
    /\ op.fn = "op_eq" =>
         op.out.r.value.bits = (IF op.arg.value.v <= op.other.value.v THEN 1 ELSE 0)
    /\ op.fn = "op_xor" =>
         op.out.r.value.v \in {BitOp("xor", op.arg.value.v, op.other.value.v),
                               BitOp("or", op.arg.value.v, op.other.value.v)}

\* The rep Int.__init__ looks at: the result of an operation, or rep itself.
Unwrapped(rep) == IF rep.kind = "opview" THEN rep.result ELSE rep

NativeGiven == op.name = "Int.__init__" /\ Unwrapped(op.arg).kind = "mlir"

\* Neither a near-integer real number nor a native value.
NeitherNumberNorNative(rep) ==
  \/ rep.kind \in {"other", "inf", "nan"}
  \/ rep.kind = "float" /\ rep.frac # "zero"

\* Construction from a native value: adopted unchanged iff its type is an
\* integer type of the width of the class and signless; else the first of
\* three type errors, in the order non-integer type, width, signlessness.
NativeAdoption ==
  NativeGiven =>
    LET rep == Unwrapped(op.arg)
    IN  IF rep.type.kind # "integer"
        THEN op.out = Raise(EmptyCache, "TypeError: cannot be casted as an Int class")
        ELSE IF rep.type.width # op.cls.width
        THEN op.out = Raise(EmptyCache, "TypeError: expected to have another width")
        ELSE IF ~rep.type.signless
        THEN op.out = Raise(EmptyCache, "TypeError: must have signless result")
        ELSE op.out = Return(EmptyCache, Inst(op.cls, rep))

\* C19: a fixed-width Int class constructed from a native value adopts it
\* unchanged iff its type is an integer type, of the width of the class, and
\* signless; a non-integer type, a width mismatch and a non-signless type
\* each raise a type error, checked in that order, and nothing is adopted
\* then.  An input that is neither a near-integer real number nor a native
\* value raises the type error 'cannot be casted'.
C19_NativeValue ==
  /\ NativeAdoption
  /\ (op.name = "Int.__init__" /\ NeitherNumberNorNative(Unwrapped(op.arg))) =>
       op.out = Raise(EmptyCache, "TypeError: cannot be casted as an Int")

\* An object that is no number, and a float that is not whole, are refused
\* with the type error; inf and nan get the errors of int().
RejectedInputs ==
  op.name = "Int.__init__" =>
    /\ (op.arg.kind = "other" \/ (op.arg.kind = "float" /\ op.arg.frac = "half")) =>
         op.out = Raise(EmptyCache, "TypeError: cannot be casted as an Int")
    /\ op.arg.kind = "inf" => op.out.err = "OverflowError: cannot convert float infinity to integer"
    /\ op.arg.kind = "nan" => op.out.err = "ValueError: cannot convert float NaN to integer"

BaseCalled == op.name = "cls(*args)" /\ op.cls \in {BaseInt, BaseFloat}

\* C20: the base Int (no width, no sign) and the base Float (no width, no
\* mlir_type) called with an argument of any kind raise the TypeError
\* "attempted to initialize ... without defined ...", and no value is made.
C20_BaseClasses ==
  BaseCalled =>
    op.out = Raise(EmptyCache,
                   IF op.cls = BaseInt
                   THEN "TypeError: attempted to initialize without defined size or sign"
                   ELSE "TypeError: attempted to initialize Float without defined width or mlir_type")

\* No call of a base class makes a value; the base Int given anything but an
\* instance of an Int class raises the TypeError of C20.
BaseClassesNeverConstruct ==
  BaseCalled =>
    /\ op.out.status = "raise"
    /\ op.out.r = NoVal
    /\ (op.cls = BaseInt
        /\ ~(op.arg.e[1].kind = "dsl" /\ op.arg.e[1].cls.family \in {"Int", "Bool", "Index"})) =>
         op.out.err = "TypeError: attempted to initialize without defined size or sign"
    /\ op.cls = BaseFloat => op.out.err = "AttributeError"

DivisionNames == {"op_truediv", "op_rtruediv", "op_floordiv", "op_rfloordiv"}

\* C21: each of op_truediv, op_rtruediv, op_floordiv and op_rfloordiv on an
\* Index raises NotImplementedError, and no operation is emitted.
C21_IndexDivision ==
  (op.name = "Index.fn" /\ op.fn \in DivisionNames) =>
    op.out = Raise(EmptyCache, "NotImplementedError")

\* The true divisions of Index raise NotImplementedError; the floor
\* divisions, given an operand that casts to Index, emit index.floordivs on
\* the operands in the order written.
IndexDivisionAsBuilt ==
  op.name = "Index.fn" =>
    /\ op.fn \in {"op_truediv", "op_rtruediv"} =>
         op.out = Raise(EmptyCache, "NotImplementedError")
    /\ (op.fn \in {"op_floordiv", "op_rfloordiv"} /\ op.other.kind = "dsl"
        /\ (op.other.cls.family = "Number" => op.other.value.v >= 0)) =>
         /\ op.out.status = "return"
         /\ op.out.r.cls = IndexClass
         /\ op.out.r.value.emitted = "index.floordivs"
         /\ op.out.r.value.operands[IF op.fn = "op_floordiv" THEN 1 ELSE 2] = op.arg.value

\* A call of a function declared to return k >= 2 scalar classes got as far
\* as the native function.
ScalarTupleCalled ==
  /\ call.invoked
  /\ f.ret.kind = "tuple"
  /\ Len(f.ret.types) >= 2
  /\ \A i \in 1..Len(f.ret.types) : f.ret.types[i] \in ScalarTypes

\* C22: for a function declared to return a tuple of k >= 2 scalar types the
\* return struct has exactly k fields, the i-th of the native type of the
\* i-th declared type, and call_function returns the k-tuple whose i-th
\* element is the value the callee wrote into field i, as an int for an Int
\* and as a float for a Float; (UInt32, F64) with 7 and 3.5 written gives
\* (7, 3.5).
C22_CompositeUnmarshal ==
  ScalarTupleCalled =>
    /\ Len(call.ret_struct.ty.fields) = Len(f.ret.types)
    /\ \A i \in 1..Len(f.ret.types) :
         call.ret_struct.ty.fields[i] = Core(CType(f.ret.types[i]))
    /\ call.status = "return"
    /\ IsVTuple(call.value)
    /\ Len(call.value.e) = Len(f.ret.types)
    /\ \A i \in 1..Len(f.ret.types) :
         /\ call.value.e[i] = call.ret_struct.e[i]
         /\ (call.value.e[i].ty = c_double) <=> (f.ret.types[i] = "F64")
    /\ (f.ret.types = <<"UInt32", "F64">> /\ call.ret_struct.e = <<Val(7), Dbl(7)>>)
         => call.value = VTup(<<Val(7), Dbl(7)>>)

\* The function returning (UInt32, F64) was called and the callee wrote 7 and
\* 3.5.
C22_Witness ==
  /\ ScalarTupleCalled
  /\ f.ret.types = <<"UInt32", "F64">>
  /\ call.ret_struct.e = <<Val(7), Dbl(7)>>
  /\ call.value = VTup(<<Val(7), Dbl(7)>>)

\* The host value a can be marshalled as an argument of declared class typ:
\* an int in the range of a UInt8, a tuple of two ints for a Pair.
Marshals(typ, a) ==
  IF typ = "Pair"
  THEN IsVTuple(a) /\ Len(a.e) = 2 /\ \A i \in 1..2 : a.e[i].kind = "val"
  ELSE a.kind = "val" /\ 0 <= a.v /\ a.v < Pow2(8)

MarshalErrors ==
  {"TypeError: cannot be converted into an Int ctype",
   "TypeError: cannot fit into an Int",
   "ValueError: expected positive pyval for signless Int",
   "CTypeTree and CTypeTreeType mismatch in terms of depth",
   "CTypeTree and CTypeTreeType mismatch in terms of length"}

\* call_function got past the check of the number of arguments.
ReachedMarshalling ==
  /\ call.made /\ call.had_so /\ so_f.loaded
  /\ Len(call.args) = Len(f.params)

\* C23: when an argument of call_function cannot be marshalled the call
\* raises the marshalling error and the native function is not invoked; the
\* native function is invoked only with one marshalled value for every
\* argument, each argument having been marshalled.
C23_FailFast ==
  /\ (ReachedMarshalling /\ \E i \in 1..Len(f.params) : ~Marshals(f.params[i], call.args[i]))
       => /\ call.status = "raise"
          /\ call.err \in MarshalErrors
          /\ ~call.invoked
          /\ call.native_args = <<>>
          /\ call.value = NoVal
  /\ call.invoked
       => /\ ReachedMarshalling
          /\ Len(call.native_args) = Len(f.params) + ReturnOffset
          /\ \A i \in 1..Len(f.params) :
               /\ Marshals(f.params[i], call.args[i])
               /\ ValueLeaves(call.native_args[i + ReturnOffset]) = ValueLeaves(call.args[i])

\* A call of two arguments whose first marshals and whose second does not:
\* it raised, with the library loaded and the native function not invoked.
C23_Witness ==
  /\ ReachedMarshalling
  /\ Len(f.params) = 2
  /\ Marshals(f.params[1], call.args[1])
  /\ ~Marshals(f.params[2], call.args[2])
  /\ call.status = "raise"
  /\ call.err \in MarshalErrors
  /\ ~call.invoked

\* What each class maps to and how its values convert, whatever the target.
PlainTree(typ) ==
  CASE typ = "UInt8" -> Tup(<<c_uint8>>)
    [] typ = "UInt32" -> Tup(<<c_uint32>>)
    [] typ = "SInt8" -> Tup(<<c_int8>>)
    [] typ = "F64" -> Tup(<<c_double>>)
    [] typ = "Pair" -> Tup(<<c_int8, c_uint8>>)

PlainResult ==
  CASE op.fn = "type_to_CType" -> Return(EmptyCache, type_to_CType(op.cls.name))
    [] op.fn = "val_to_CType" -> to_CType(op.cls.name, op.arg)
    [] OTHER -> Return(EmptyCache, from_CType(op.cls.name, op.arg))

\* C24: the TypeTree of Index is (c_size_t,) under CTarget and (c_int,) under
\* PolyCTarget; for every class without a PolyCType both targets give the
\* same TypeTree and convert every value the same way.
C24_IndexMapping ==
  op.name = "abi" =>
    /\ (op.fn = "type_to_CType" /\ op.cls.name = "Index") =>
         op.out = Return(EmptyCache,
                         Tup(<<IF op.path = "CTarget" THEN c_size_t ELSE c_int>>))
    /\ op.cls.name # "Index" =>
         /\ op.out = PlainResult
         /\ op.fn = "type_to_CType" => op.out.r = PlainTree(op.cls.name)

\* PolyCTarget.type_to_CType(Index) gave (c_int,).
C24_Witness ==
  /\ op.name = "abi"
  /\ op.path = "PolyCTarget"
  /\ op.fn = "type_to_CType"
  /\ op.cls.name = "Index"
  /\ op.out.r = Tup(<<c_int>>)

\* C25: on_Not of a Bool is a Bool holding the result of a select on the
\* operand between the constants false and true: false for a true operand,
\* true for a false one.
C25_BoolNot ==
  op.name = "Bool.on_Not" =>
    /\ op.out.status = "return"
    /\ op.out.r.kind = "dsl"
    /\ op.out.r.cls = BoolClass
    /\ op.out.r.value.type = IntegerType(1)
    /\ op.out.r.value.bits = 1 - op.arg.value.bits

\* on_Not of the true Bool gave the false Bool.
C25_Witness ==
  /\ op.name = "Bool.on_Not"
  /\ op.arg.value.bits = 1
  /\ op.out.status = "return"
  /\ op.out.r.value.bits = 0

\* The host operation a unary operator name stands for, on an int.
HostUnary(name, v) ==
  CASE name = "op_neg" -> 0 - v
    [] name = "op_abs" -> IF v < 0 THEN 0 - v ELSE v
    [] name = "op_invert" -> 0 - v - 1
    [] OTHER -> v

\* C26: every unary operator of Number applied to a Number of an int returns
\* the Number of the host operation's result and does not raise; op_neg of
\* Number(2) is Number(-2).
C26_NumberUnary ==
  (op.name = "Number.unary" /\ op.arg.value.kind = "int") =>
    op.out = Return(EmptyCache, NumberOf(Lit(HostUnary(op.fn, op.arg.value.v))))

\* As built, every unary operator of Number looks its own name up on the
\* wrapped host number, which has no attribute of that name.
NumberUnaryAsBuilt ==
  op.name = "Number.unary" => op.out = Raise(EmptyCache, "AttributeError")

\* C27: every call CTypeTree_from_Structure(ct, s) comes to an end, returning
\* or raising, a ct that is single-element shells around a scalar included.
C27_Terminates == <>(pc = "done" /\ back.status \in {"return", "raise"})

\* ct is single-element tuples around a scalar descriptor, s a struct.
ScalarInShells == IsTuple(ct) /\ IsInstance(s.r) /\ ShellDepth(ct) > 0 /\ IsScalar(Core(ct))

\* The call comes to an end exactly when ct is not of that kind, and then
\* with the outcome of CTypeTree_from_Structure; with a ct of that kind the
\* body of the first loop runs again and again on a ct that no longer
\* changes.
TerminatesUnlessScalarInShells ==
  /\ ~ScalarInShells ~> (pc = "done" /\ back = CTypeTree_from_Structure(ct, s.r))
  /\ [](ScalarInShells => pc # "done")
  /\ ScalarInShells ~> [](Len(ctb.fields) = 1 /\ ~IsTuple(ctb.fields[1]))
  /\ ScalarInShells => []<>(pc = "body")

\* Int.to_CType of an 8-bit Int class was given a host int.
IntMarshalled ==
  /\ op.name = "abi"
  /\ op.fn = "val_to_CType"
  /\ op.path = "CTarget"
  /\ op.cls.name \in {"UInt8", "SInt8"}
  /\ op.arg.kind = "val"
  /\ op.arg.ty = NoType

\* The ints the native integer of the class holds.
NativeRange(typ) ==
  IF typ = "SInt8" THEN (0 - Pow2(7))..(Pow2(7) - 1) ELSE 0..(Pow2(8) - 1)

\* C28: Int.to_CType(v) of a class of width w returns (v,) exactly when v is
\* in the range of the native integer of that width and sign, and raises for
\* every other int.
C28_ToCTypeRange ==
  IntMarshalled =>
    IF op.arg.v \in NativeRange(op.cls.name)
    THEN op.out = Return(EmptyCache, VTup(<<op.arg>>))
    ELSE op.out.status = "raise"

\* As built: v is refused when 2^w <= v and, by an unsigned class, when
\* v < 0.  A signed class takes every v below 2^w, and the field of the
\* native struct then holds v modulo 2^w.
ToCTypeAsBuilt ==
  IntMarshalled =>
    /\ op.cls.name = "UInt8" =>
         IF op.arg.v \in NativeRange("UInt8")
         THEN op.out = Return(EmptyCache, VTup(<<op.arg>>))
         ELSE op.out.status = "raise"
    /\ op.cls.name = "SInt8" =>
         IF op.arg.v < Pow2(8)
         THEN /\ op.out = Return(EmptyCache, VTup(<<op.arg>>))
              /\ (FieldStore(c_int8, op.arg.v) = op.arg.v) <=> (op.arg.v \in NativeRange("SInt8"))
         ELSE op.out = Raise(EmptyCache, "TypeError: cannot fit into an Int")

\* No PolyCTarget has a compiled object, no native function is loaded or
\* invoked, and every build raised NotImplementedError.
PolyNeverRuns ==
  /\ ~tgt.has_so
  /\ so_f = NotLoaded
  /\ ~call.invoked
  /\ call.native_args = <<>>
  /\ \A i \in 1..Len(log) : log[i] = "NotImplementedError"
  /\ call.made => call.status = "raise"

NumberOperatorRan ==
  /\ op.name = "Number.fn"
  /\ Installed(op.fn) # {}
  /\ op.other.kind = "dsl"
  /\ op.other.cls.family = "Number"

\* C30: every operator name of Number is bound to one host operation, whatever
\* the order in which the table is gone through: the operation that runs
\* under a name is the only one the table has for that name, op_xor included.
C30_OneOperationPerName ==
  NumberOperatorRan => \A tup \in Installed(op.fn) : tup.internal_op = op.path

\* As built: one operation per name except for op_xor, which runs
\* operator.xor or operator.or_, whichever of its two entries the loop over
\* the set came to last.
OneOperationPerNameButXor ==
  NumberOperatorRan =>
    IF op.fn = "op_xor"
    THEN /\ op.path \in {"xor", "or_"}
         /\ {tup.internal_op : tup \in Installed(op.fn)} = {"xor", "or_"}
         /\ op.out.r.value.v = IF op.path = "xor"
                                THEN BitOp("xor", op.arg.value.v, op.other.value.v)
                                ELSE BitOp("or", op.arg.value.v, op.other.value.v)
    ELSE \A tup \in Installed(op.fn) : tup.internal_op = op.path

\* op_xor of 1 and 1 ran as operator.or_ and gave 1, where operator.xor gives 0.
XorRanAsOr ==
  /\ NumberOperatorRan
  /\ op.fn = "op_xor"
  /\ op.path = "or_"
  /\ op.arg.value.v = 1 /\ op.other.value.v = 1
  /\ op.out.r.value.v = 1

====
